---- MODULE Spec2Model ----
(***************************************************************************)
(* TCL API mirror: the real-time distribution layer.                       *)
(*                                                                         *)
(*   - services/tclService.ts               alerts cache and refresh       *)
(*   - services/vehicleMonitoringService.ts vehicle cache and refresh      *)
(*   - services/trafficSocketService.ts     topic subscription router      *)
(*   - services/vehicleMonitoringStreamService.ts  broadcast (SSE) channel *)
(*   - controllers/*.ts                     status / get-or-populate reads *)
(*                                                                         *)
(* Strings are sequences of one-character strings, so that trim() and the  *)
(* comparison of normalised topics are computed, not assumed.              *)
(***************************************************************************)
EXTENDS Integers, Sequences, FiniteSets, TLC

VARIABLES
    \* ---- trafficSocketService.ts
    wss,                  \* TRUE iff the WebSocketServer exists (wss !== null)
    wssClients,           \* wss.clients of the current server
    heartbeatInterval,    \* TRUE iff the router heartbeat timer is armed
    socketSubscriptions,  \* Map<WebSocket, Set<string>>
    socketsByLine,        \* Map<string, Set<WebSocket>>
    readyState,           \* per connection: "NONE", "OPEN", "CLOSING", "CLOSED"
    isAlive,              \* per connection: the liveness flag
    silentTicks,          \* per OPEN connection: heartbeat ticks since it was
                          \* accepted or last answered a probe (counted up to 2)
    exited,               \* connections whose 'error' or termination has been
                          \* processed and whose 'close' event is still to come
    \* ---- tclService.ts / vehicleMonitoringService.ts
    cachedData,           \* per feed: the cached snapshot
    refreshInterval,      \* per feed: TRUE iff the refresh timer is armed
    fakeAlertCounter,     \* tclService.ts fakeAlertCounter
    inflight,             \* update invocations suspended at their fetch
    serverPc,             \* position of startServer()
    clock,                \* source of new Date()
    \* ---- vehicleMonitoringStreamService.ts
    clients,              \* Set<Response> of registered SSE listeners
    sseHeartbeat,         \* number of SSE heartbeat timers that are armed
    sseOpen,              \* SSE responses whose transport is still open
    \* ---- what the last handler did (its outputs)
    last,                 \* which handler ran last, for whom, with what outcome
    sent,                 \* frames the last handler sent on WebSockets, in order
    sse,                  \* events the last handler wrote to SSE responses
    resp                  \* HTTP response (or rejection) the last handler produced

routerVars == <<wss, wssClients, heartbeatInterval, socketSubscriptions,
                socketsByLine, readyState, isAlive, silentTicks, exited>>
indexVars  == <<socketSubscriptions, socketsByLine>>
feedVars   == <<cachedData, refreshInterval, fakeAlertCounter, inflight,
                serverPc, clock>>
streamVars == <<clients, sseHeartbeat, sseOpen>>
outVars    == <<last, sent, sse, resp>>
vars       == <<routerVars, feedVars, streamVars, outVars>>

----------------------------------------------------------------------------
(* Bounds of the model *)

\* WebSocket connections that may be accepted
MaxConns == 2
\* entries of the longest "lines" array a client subscribes with
MaxLines == 60
\* update invocations that may be suspended at their fetch at the same time
MaxInFlight == 2
\* successful cache replaces in one run (values of new Date())
MaxClock == 3
\* records of the longest list one upstream GET returns
MaxAlerts == 4

(* Program constants *)
MAX_FAVORITES == 50
FETCH_TIMEOUT_MS == 30000
TRAFFIC_REFRESH_INTERVAL_MS == 600000
VEHICLE_REFRESH_INTERVAL_MS == 10000

Conns == 1..MaxConns
SseConns == {"s1", "s2"}
Feeds == {"alerts", "vehicle"}
null  == <<>>
Date(t) == <<t>>

----------------------------------------------------------------------------
(* Strings *)

SP == " "
Str1(c) == <<c>>
Empty == <<>>

RECURSIVE TrimStart(_)
TrimStart(s) ==
    IF s = <<>> THEN <<>>
    ELSE IF Head(s) = SP THEN TrimStart(Tail(s)) ELSE s

RECURSIVE TrimEnd(_)
TrimEnd(s) ==
    IF s = <<>> THEN <<>>
    ELSE IF s[Len(s)] = SP THEN TrimEnd(SubSeq(s, 1, Len(s) - 1)) ELSE s

\* a variant that strips nothing
TrimNothing(s) == s

\* String.prototype.trim
Trim(s) == TrimEnd(TrimStart(s))

Digit(d) == CASE d = 0 -> "0" [] d = 1 -> "1" [] d = 2 -> "2" [] d = 3 -> "3"
              [] d = 4 -> "4" [] d = 5 -> "5" [] d = 6 -> "6" [] d = 7 -> "7"
              [] d = 8 -> "8" [] d = 9 -> "9"

\* String(n) for a non-negative integer n
RECURSIVE NumberToString(_)
NumberToString(n) ==
    IF n < 10 THEN <<Digit(n)>>
    ELSE Append(NumberToString(n \div 10), Digit(n % 10))

Range(s) == {s[i] : i \in 1..Len(s)}

----------------------------------------------------------------------------
(* JavaScript values met in upstream records and in client messages *)

S(chars) == [t |-> "string",    s |-> chars, n |-> 0]
N(k)     == [t |-> "number",    s |-> <<>>,  n |-> k]
B(b)     == [t |-> "boolean",   s |-> <<>>,  n |-> IF b THEN 1 ELSE 0]
O        == [t |-> "object",    s |-> <<>>,  n |-> 0]
Undefined == [t |-> "undefined", s |-> <<>>, n |-> 0]

\* A TrafficAlertRaw is an open map: a function from the field names it has
Field(alert, f) == IF f \in DOMAIN alert THEN alert[f] ELSE Undefined

----------------------------------------------------------------------------
(* utils/trafficAlertKey.ts: getLineKey, getAlertKey *)

\* absent and empty-after-trim normalise to absent (the empty string here),
\* numbers and booleans to their string form, every other type to absent
normalizeField(v) ==
    CASE v.t = "string"  -> Trim(v.s)
      [] v.t = "number"  -> NumberToString(v.n)
      [] v.t = "boolean" -> IF v.n = 1 THEN <<"t","r","u","e">>
                                       ELSE <<"f","a","l","s","e">>
      [] OTHER -> Empty

\* the topic aliases, primary field first
LineAliases == <<"ligne_cli", "ligne_com", "ligne">>

RECURSIVE FirstPresent(_, _)
FirstPresent(alert, fields) ==
    IF fields = <<>> THEN Empty
    ELSE IF normalizeField(Field(alert, Head(fields))) # Empty
         THEN normalizeField(Field(alert, Head(fields)))
         ELSE FirstPresent(alert, Tail(fields))

\* the topic key of a record, Empty when it has none
getLineKey(alert) == FirstPresent(alert, LineAliases)

\* the deduplication key: the canonical tuple of the semantic fields
getAlertKey(alert) ==
    << normalizeField(Field(alert, "message")),
       normalizeField(Field(alert, "titre")),
       getLineKey(alert),
       normalizeField(Field(alert, "cause")),
       normalizeField(Field(alert, "type")),
       normalizeField(Field(alert, "mode")) >>

----------------------------------------------------------------------------
(* trafficSocketService.ts: the subscription index *)

\* Set.prototype.add / delete on an insertion-ordered Set kept as a sequence
SetAdd(q, x) == IF x \in Range(q) THEN q ELSE Append(q, x)

RECURSIVE SetDelete(_, _)
SetDelete(q, x) ==
    IF q = <<>> THEN <<>>
    ELSE IF Head(q) = x THEN Tail(q) ELSE <<Head(q)>> \o SetDelete(Tail(q), x)

\* Map.prototype.delete / set / new Map(), as functions with explicit domains
EmptyMap == [x \in {} |-> {}]
MapDelete(m, k) == [x \in (DOMAIN m) \ {k} |-> m[x]] @@ EmptyMap
MapSet(m, k, v) == (k :> v) @@ m

\* a variant that leaves a bucket in the index when its last socket goes
removeSocketFromLineKeepBucket(byLine, ws, line) ==
    IF line \notin DOMAIN byLine THEN byLine
    ELSE MapSet(byLine, line, SetDelete(byLine[line], ws))

\* removeSocketFromLine(ws, line), on the reverse index byLine
removeSocketFromLine(byLine, ws, line) ==
    IF line \notin DOMAIN byLine THEN byLine
    ELSE LET sockets == SetDelete(byLine[line], ws)
         IN  IF Len(sockets) = 0 THEN MapDelete(byLine, line)
             ELSE MapSet(byLine, line, sockets)

RECURSIVE RemoveFromLines(_, _, _)
RemoveFromLines(byLine, ws, lines) ==
    IF lines = {} \/ DOMAIN byLine = {} THEN byLine
    ELSE LET line == CHOOSE l \in lines : TRUE
         IN  RemoveFromLines(removeSocketFromLine(byLine, ws, line), ws,
                             lines \ {line})

\* clearSubscriptions(ws): the pair <<socketSubscriptions, socketsByLine>> after
clearSubscriptions(subs, byLine, ws) ==
    IF ws \notin DOMAIN subs THEN <<subs, byLine>>
    ELSE <<MapDelete(subs, ws), RemoveFromLines(byLine, ws, subs[ws])>>

RECURSIVE AddToLines(_, _, _)
AddToLines(byLine, ws, lines) ==
    IF lines = <<>> THEN byLine
    ELSE LET line == Head(lines)
             added == IF line \in DOMAIN byLine
                      THEN MapSet(byLine, line, SetAdd(byLine[line], ws))
                      ELSE MapSet(byLine, line, <<ws>>)
         IN  AddToLines(added, ws, Tail(lines))

\* replaceSubscriptions without its clearSubscriptions: a merge
replaceSubscriptionsMerge(subs, byLine, ws, lines) ==
    <<MapSet(subs, ws, Range(lines)), AddToLines(byLine, ws, lines)>>

\* replaceSubscriptions(ws, lines)
replaceSubscriptions(subs, byLine, ws, lines) ==
    LET cleared == clearSubscriptions(subs, byLine, ws)
    IN  <<MapSet(cleared[1], ws, Range(lines)),
          AddToLines(cleared[2], ws, lines)>>

\* the loop of normalizeLines over value[i..], with its break at MAX_FAVORITES
\* a variant without the cap: the loop never breaks
RECURSIVE NormalizeAll(_, _, _)
NormalizeAll(items, i, normalized) ==
    IF i > Len(items) THEN normalized
    ELSE LET item == items[i]
             line == CASE item.t = "string" -> Trim(item.s)
                       [] item.t = "number" -> NumberToString(item.n)
                       [] OTHER -> Empty
         IN  IF line = Empty \/ line \in Range(normalized)
             THEN NormalizeAll(items, i + 1, normalized)
             ELSE NormalizeAll(items, i + 1, Append(normalized, line))

RECURSIVE NormalizeLoop(_, _, _)
NormalizeLoop(items, i, normalized) ==
    IF i > Len(items) THEN normalized
    ELSE LET item == items[i]
             line == CASE item.t = "string" -> Trim(item.s)
                       [] item.t = "number" -> NumberToString(item.n)
                       [] OTHER -> Empty
         IN  IF line = Empty \/ line \in Range(normalized)
             THEN NormalizeLoop(items, i + 1, normalized)
             ELSE IF Len(normalized) + 1 >= MAX_FAVORITES
                  THEN Append(normalized, line)
                  ELSE NormalizeLoop(items, i + 1, Append(normalized, line))

\* a variant of normalizeLines without the cap
normalizeLinesUncapped(value) ==
    IF ~value.isArray THEN [lines |-> <<>>, truncated |-> FALSE]
    ELSE LET normalized == NormalizeAll(value.items, 1, <<>>)
         IN  [lines |-> normalized,
              truncated |-> Len(normalized) >= MAX_FAVORITES
                            /\ Len(value.items) > MAX_FAVORITES]

\* normalizeLines(value); value is [isArray, items]
normalizeLines(value) ==
    IF ~value.isArray THEN [lines |-> <<>>, truncated |-> FALSE]
    ELSE LET normalized == NormalizeLoop(value.items, 1, <<>>)
         IN  [lines |-> normalized,
              truncated |-> Len(normalized) >= MAX_FAVORITES
                            /\ Len(value.items) > MAX_FAVORITES]

----------------------------------------------------------------------------
(* Frames, events and responses produced by the handlers *)

NoAlert == [none |-> Undefined]
NoKey   == <<>>

Frame(to, type) ==
    [to |-> to, type |-> type, error |-> "", lines |-> <<>>, truncated |-> FALSE,
     maxFavorites |-> 0, line |-> Empty, key |-> NoKey, alert |-> NoAlert,
     \* the call of send() threw
     threw |-> FALSE]
WelcomeFrame(to) == [Frame(to, "welcome") EXCEPT !.maxFavorites = MAX_FAVORITES]
ErrorFrame(to, e) == [Frame(to, "error") EXCEPT !.error = e]
PongFrame(to) == Frame(to, "pong")
\* the protocol-level probe of socket.ping()
PingFrame(to) == Frame(to, "ping")
\* a variant that acknowledges the list without its last topic
SubscribedFrameShort(to, lines, truncated) ==
    [Frame(to, "subscribed") EXCEPT
        !.lines = IF lines = <<>> THEN <<>> ELSE SubSeq(lines, 1, Len(lines) - 1),
        !.truncated = truncated, !.maxFavorites = MAX_FAVORITES]
SubscribedFrame(to, lines, truncated) ==
    [Frame(to, "subscribed") EXCEPT !.lines = lines, !.truncated = truncated,
                                    !.maxFavorites = MAX_FAVORITES]
AlertFrame(to, alert) ==
    [Frame(to, "alert") EXCEPT !.line = getLineKey(alert),
                               !.key = getAlertKey(alert), !.alert = alert]

\* sendJson(ws, payload): nothing is sent unless the socket is OPEN
sendJson(state, frame) == IF state[frame.to] = "OPEN" THEN <<frame>> ELSE <<>>

Op(op, conn, feed, origin, ok) ==
    [op |-> op, conn |-> conn, feed |-> feed, origin |-> origin, ok |-> ok,
     \* the handler's input, the subscription or the cached object it found,
     \* the calls it made to notifyNewTrafficAlerts
     arg |-> <<>>, before |-> <<>>, handed |-> <<>>]
NoResp == [status |-> 0, count |-> 0, lastUpdated |-> null, data |-> <<>>]

----------------------------------------------------------------------------
(* trafficSocketService.ts: notifyNewTrafficAlerts *)

\* a variant without the catch around send(): the first call that throws ends
\* the dispatch
RECURSIVE SendToSocketsUncaught(_, _, _, _)
SendToSocketsUncaught(state, sockets, alert, throws) ==
    IF sockets = <<>> THEN <<>>
    ELSE IF state[Head(sockets)] # "OPEN"
         THEN SendToSocketsUncaught(state, Tail(sockets), alert, throws)
         ELSE IF Head(sockets) \in throws
              THEN <<[AlertFrame(Head(sockets), alert) EXCEPT !.threw = TRUE]>>
              ELSE <<AlertFrame(Head(sockets), alert)>>
                   \o SendToSocketsUncaught(state, Tail(sockets), alert, throws)

\* the loop over the bucket: socket.send(message) is called on every OPEN
\* socket; a call that throws (sockets in throws) is caught and the loop goes on
RECURSIVE SendToSockets(_, _, _, _)
SendToSockets(state, sockets, alert, throws) ==
    IF sockets = <<>> THEN <<>>
    ELSE (IF state[Head(sockets)] # "OPEN" THEN <<>>
          ELSE <<[AlertFrame(Head(sockets), alert)
                    EXCEPT !.threw = Head(sockets) \in throws]>>)
         \o SendToSockets(state, Tail(sockets), alert, throws)

\* a variant that sends a record whose line has no bucket to every connection
RECURSIVE NotifyLoopBroadcasting(_, _, _, _)
NotifyLoopBroadcasting(byLine, state, alerts, throws) ==
    IF alerts = <<>> THEN <<>>
    ELSE LET alert == Head(alerts)
             lineKey == getLineKey(alert)
             frames ==
               IF lineKey = Empty THEN <<>>
               ELSE IF lineKey \notin DOMAIN byLine \/ Len(byLine[lineKey]) = 0
                    THEN SendToSockets(state, [c \in 1..MaxConns |-> c], alert,
                                       throws)
                    ELSE SendToSockets(state, byLine[lineKey], alert, throws)
         IN  frames \o NotifyLoopBroadcasting(byLine, state, Tail(alerts), throws)

RECURSIVE NotifyLoop(_, _, _, _)
NotifyLoop(byLine, state, alerts, throws) ==
    IF alerts = <<>> THEN <<>>
    ELSE LET alert == Head(alerts)
             lineKey == getLineKey(alert)
             frames ==
               IF lineKey = Empty THEN <<>>
               ELSE IF lineKey \notin DOMAIN byLine \/ Len(byLine[lineKey]) = 0
                    THEN <<>>
                    ELSE SendToSockets(state, byLine[lineKey], alert, throws)
         IN  frames \o NotifyLoop(byLine, state, Tail(alerts), throws)

\* the calls of send() that notifyNewTrafficAlerts(alerts) makes, in order
notifyNewTrafficAlerts(server, byLine, state, alerts, throws) ==
    IF ~server \/ Len(alerts) = 0 THEN <<>>
    ELSE NotifyLoop(byLine, state, alerts, throws)

----------------------------------------------------------------------------
(* Inputs: what clients send and what the upstream answers *)

A  == <<"A">>
Bl == <<"B">>
M1 == <<"m", "1">>
M2 == <<"m", "2">>
M3 == <<"m", "3">>

\* upstream records; "n" is a volatile sequence number
rA1  == [ligne_cli |-> S(A), message |-> S(M1), n |-> N(1)]
rA1v == [ligne_cli |-> S(A), message |-> S(M1), n |-> N(2)]
rA2  == [ligne_cli |-> S(<<" ", "A">>), message |-> S(M2)]
rB   == [ligne_cli |-> S(<<" ">>), ligne_com |-> S(Bl), message |-> S(M1)]
rN   == [message |-> S(M3), n |-> N(3)]

\* the "lines" arrays of subscribe messages
LinesInputs ==
    { <<>>,
      <<S(<<" ", "A", " ">>), S(A), S(Bl)>>,
      <<B(TRUE), S(<<" ">>), O, S(Bl), S(<<>>), N(7)>> }

\* long "lines" arrays: n topic strings " L1", " L2", ... that are distinct
\* after trimming, alone or with duplicates, empty entries, numbers, booleans
Topic(i) == S(<<" ", "L">> \o NumberToString(i))
Topics(n) == [i \in 1..n |-> Topic(i)]
LongLinesInputs ==
    { Topics(n) : n \in {MAX_FAVORITES - 1, MAX_FAVORITES, MAX_FAVORITES + 1,
                         MaxLines} }
    \cup { Topics(MAX_FAVORITES) \o <<Topic(1)>>,
           <<S(<<" ">>), B(FALSE)>> \o Topics(MAX_FAVORITES),
           Topics(MAX_FAVORITES - 1) \o <<S(Empty), Topic(2), O>>,
           <<N(MaxLines), Topic(3), N(MaxLines)>> \o Topics(MaxLines - 3),
           <<B(TRUE), N(0), S(<<"L", "1", " ">>)>> \o Topics(3) }

\* inbound WebSocket messages, as JSON.parse sees them
Msg(parses, isObject, hasType, type, linesIsArray, lines) ==
    [parses |-> parses, isObject |-> isObject, hasType |-> hasType,
     type |-> type, linesIsArray |-> linesIsArray, lines |-> lines]
Messages ==
    { Msg(FALSE, FALSE, FALSE, "", FALSE, <<>>),          \* not JSON
      Msg(TRUE, FALSE, FALSE, "", FALSE, <<>>),           \* JSON, not an object
      Msg(TRUE, TRUE, FALSE, "", FALSE, <<>>),            \* object without type
      Msg(TRUE, TRUE, TRUE, "subscribe", FALSE, <<>>),    \* lines missing
      Msg(TRUE, TRUE, TRUE, "ping", FALSE, <<>>),
      Msg(TRUE, TRUE, TRUE, "unsubscribe", FALSE, <<>>) } \* unknown type
    \cup { Msg(TRUE, TRUE, TRUE, "subscribe", TRUE, l) : l \in LinesInputs }

\* the sockets whose send() throws during one dispatch
ThrowSets == {{}, {1}}
\* the SSE responses whose write() throws during one push
SseThrowSets == {{}, {"s1"}}

\* alert lists on which notifyNewTrafficAlerts may be called
NotifyInputs == { <<>>, <<rA1>>, <<rB, rN>>, <<rA2, rA1, rB>> }

----------------------------------------------------------------------------
(* Initial state: the module-level state of the four services *)

EmptyAlertsCache  == [alerts |-> <<>>, lastUpdated |-> null, count |-> 0]
NullPayload       == [kind |-> "null", deliveries |-> <<>>]
EmptyVehicleCache == [payload |-> NullPayload, lastUpdated |-> null, count |-> 0]

Init ==
    /\ wss = FALSE
    /\ wssClients = {}
    /\ heartbeatInterval = FALSE
    /\ socketSubscriptions = EmptyMap
    /\ socketsByLine = EmptyMap
    /\ readyState = [c \in Conns |-> "NONE"]
    /\ isAlive = [c \in Conns |-> FALSE]
    /\ silentTicks = [c \in Conns |-> 0]
    /\ exited = {}
    /\ cachedData = [f \in Feeds |-> IF f = "alerts" THEN EmptyAlertsCache
                                     ELSE EmptyVehicleCache]
    /\ refreshInterval = [f \in Feeds |-> FALSE]
    /\ fakeAlertCounter = 0
    /\ inflight = {}
    /\ serverPc = "boot"
    /\ clock = 0
    /\ clients = <<>>
    /\ sseHeartbeat = 0
    /\ sseOpen = {}
    /\ last = Op("init", 0, "none", "none", TRUE)
    /\ sent = <<>>
    /\ sse = <<>>
    /\ resp = NoResp

----------------------------------------------------------------------------
(* trafficSocketService.ts: the handlers *)

\* outputs of a router handler: frames only
RouterOut(op, frames) ==
    /\ last' = op
    /\ sent' = frames
    /\ sse' = <<>>
    /\ resp' = NoResp

\* startHeartbeat(), given the value wss has when it is called
startHeartbeat(server, armed) == IF ~server \/ armed THEN armed ELSE TRUE

\* initTrafficSocketServer(server)
InitTrafficSocketServer ==
    /\ ~wss
    /\ wss' = TRUE
    /\ wssClients' = {}
    /\ heartbeatInterval' = startHeartbeat(TRUE, heartbeatInterval)
    /\ RouterOut(Op("initTrafficSocketServer", 0, "none", "none", TRUE), <<>>)
    /\ UNCHANGED <<indexVars, readyState, isAlive, silentTicks, exited,
                   feedVars, streamVars>>

\* wss.on('connection', ...)
Connection(c) ==
    /\ wss
    /\ readyState[c] = "NONE"
    /\ readyState' = [readyState EXCEPT ![c] = "OPEN"]
    /\ wssClients' = wssClients \cup {c}
    /\ isAlive' = [isAlive EXCEPT ![c] = TRUE]
    /\ silentTicks' = [silentTicks EXCEPT ![c] = 0]
    /\ RouterOut(Op("connection", c, "none", "none", TRUE),
                 sendJson(readyState', WelcomeFrame(c)))
    /\ UNCHANGED <<wss, heartbeatInterval, indexVars, exited, feedVars,
                   streamVars>>

\* a variant that answers malformed input with the error frame and drops the
\* sender's subscription
handleMessageUnsubscribing(subs, byLine, state, ws, m) ==
    LET cleared == clearSubscriptions(subs, byLine, ws)
    IN  IF ~m.parses
        THEN <<cleared[1], cleared[2], sendJson(state, ErrorFrame(ws, "invalid_json"))>>
        ELSE IF ~m.isObject \/ ~m.hasType
        THEN <<cleared[1], cleared[2],
               sendJson(state, ErrorFrame(ws, "invalid_message"))>>
        ELSE IF m.type = "subscribe"
        THEN IF ~m.linesIsArray
             THEN <<cleared[1], cleared[2],
                    sendJson(state, ErrorFrame(ws, "invalid_lines"))>>
             ELSE LET r == normalizeLines([isArray |-> TRUE, items |-> m.lines])
                      idx == replaceSubscriptions(subs, byLine, ws, r.lines)
                  IN  <<idx[1], idx[2],
                        sendJson(state, SubscribedFrame(ws, r.lines, r.truncated))>>
        ELSE IF m.type = "ping"
        THEN <<subs, byLine, sendJson(state, PongFrame(ws))>>
        ELSE <<cleared[1], cleared[2],
               sendJson(state, ErrorFrame(ws, "unknown_type"))>>

\* handleMessage(ws, raw): <<socketSubscriptions, socketsByLine, frames>> after
handleMessage(subs, byLine, state, ws, m) ==
    IF ~m.parses
    THEN <<subs, byLine, sendJson(state, ErrorFrame(ws, "invalid_json"))>>
    ELSE IF ~m.isObject \/ ~m.hasType
    THEN <<subs, byLine, sendJson(state, ErrorFrame(ws, "invalid_message"))>>
    ELSE IF m.type = "subscribe"
    THEN IF ~m.linesIsArray
         THEN <<subs, byLine, sendJson(state, ErrorFrame(ws, "invalid_lines"))>>
         ELSE LET r == normalizeLines([isArray |-> TRUE, items |-> m.lines])
                  idx == replaceSubscriptions(subs, byLine, ws, r.lines)
              IN  <<idx[1], idx[2],
                    sendJson(state, SubscribedFrame(ws, r.lines, r.truncated))>>
    ELSE IF m.type = "ping"
    THEN <<subs, byLine, sendJson(state, PongFrame(ws))>>
    ELSE <<subs, byLine, sendJson(state, ErrorFrame(ws, "unknown_type"))>>

\* ws.on('message', data => handleMessage(ws, data)). The handler does not look
\* at the state of the socket: frames received before an 'error' or a
\* terminate() are still delivered to it until 'close' is emitted; after the
\* peer's close frame or the 'close' event none is.
OnMessage(c, m) ==
    /\ readyState[c] = "OPEN" \/ c \in exited
    /\ LET r == handleMessage(socketSubscriptions, socketsByLine, readyState, c, m)
       IN  /\ socketSubscriptions' = r[1]
           /\ socketsByLine' = r[2]
           /\ RouterOut([Op("message", c, "none",
                            IF m.parses /\ m.isObject /\ m.hasType THEN m.type
                            ELSE "none", TRUE)
                           EXCEPT !.arg = <<m>>,
                                  !.before = IF c \in DOMAIN socketSubscriptions
                                             THEN <<socketSubscriptions[c]>>
                                             ELSE <<>>], r[3])
    /\ UNCHANGED <<wss, wssClients, heartbeatInterval, readyState, isAlive,
                   silentTicks, exited, feedVars, streamVars>>

\* ws.on('pong', ...)
\* a variant whose pong handler does not mark the connection alive
OnPongIgnored(c) ==
    /\ readyState[c] = "OPEN"
    /\ silentTicks' = [silentTicks EXCEPT ![c] = 0]
    /\ RouterOut(Op("pong", c, "none", "none", TRUE), <<>>)
    /\ UNCHANGED <<wss, wssClients, heartbeatInterval, indexVars, readyState,
                   isAlive, exited, feedVars, streamVars>>

OnPong(c) ==
    /\ readyState[c] = "OPEN"
    /\ isAlive' = [isAlive EXCEPT ![c] = TRUE]
    /\ silentTicks' = [silentTicks EXCEPT ![c] = 0]
    /\ RouterOut(Op("pong", c, "none", "none", TRUE), <<>>)
    /\ UNCHANGED <<wss, wssClients, heartbeatInterval, indexVars, readyState,
                   exited, feedVars, streamVars>>

\* the peer starts the closing handshake: the socket is no longer OPEN, its
\* 'close' event has not been emitted yet
PeerClosing(c) ==
    /\ readyState[c] = "OPEN"
    /\ readyState' = [readyState EXCEPT ![c] = "CLOSING"]
    /\ silentTicks' = [silentTicks EXCEPT ![c] = 0]
    /\ RouterOut(Op("closing", c, "none", "none", TRUE), <<>>)
    /\ UNCHANGED <<wss, wssClients, heartbeatInterval, indexVars, isAlive,
                   exited, feedVars, streamVars>>

\* ws.on('close', () => clearSubscriptions(ws))
OnClose(c) ==
    /\ readyState[c] \in {"OPEN", "CLOSING"}
    /\ readyState' = [readyState EXCEPT ![c] = "CLOSED"]
    /\ wssClients' = wssClients \ {c}
    /\ LET r == clearSubscriptions(socketSubscriptions, socketsByLine, c)
       IN  socketSubscriptions' = r[1] /\ socketsByLine' = r[2]
    /\ exited' = exited \ {c}
    /\ silentTicks' = [silentTicks EXCEPT ![c] = 0]
    /\ RouterOut(Op("close", c, "none", "none", TRUE), <<>>)
    /\ UNCHANGED <<wss, heartbeatInterval, isAlive, feedVars, streamVars>>

\* ws.on('error', () => clearSubscriptions(ws)); the socket is closing
OnError(c) ==
    /\ readyState[c] = "OPEN"
    /\ readyState' = [readyState EXCEPT ![c] = "CLOSING"]
    /\ LET r == clearSubscriptions(socketSubscriptions, socketsByLine, c)
       IN  socketSubscriptions' = r[1] /\ socketsByLine' = r[2]
    /\ exited' = exited \cup {c}
    /\ silentTicks' = [silentTicks EXCEPT ![c] = 0]
    /\ RouterOut(Op("error", c, "none", "none", TRUE), <<>>)
    /\ UNCHANGED <<wss, wssClients, heartbeatInterval, isAlive, feedVars,
                   streamVars>>

\* the loop over wss.clients:
\* <<subs, byLine, readyState, isAlive, exited, probes sent>> after
RECURSIVE HeartbeatLoop(_, _)
HeartbeatLoop(todo, st) ==
    IF todo = {} THEN st
    ELSE LET socket == CHOOSE c \in todo : TRUE
             next ==
               IF ~st[4][socket]
               THEN LET r == clearSubscriptions(st[1], st[2], socket)
                    IN  <<r[1], r[2],
                          \* socket.terminate()
                          [st[3] EXCEPT ![socket] =
                              IF @ = "CLOSED" THEN @ ELSE "CLOSING"],
                          st[4],
                          IF st[3][socket] = "CLOSED" THEN st[5]
                          ELSE st[5] \cup {socket},
                          st[6]>>
               ELSE \* socket.isAlive = false; socket.ping()
                    <<st[1], st[2], st[3], [st[4] EXCEPT ![socket] = FALSE],
                      st[5], st[6] \o sendJson(st[3], PingFrame(socket))>>
         IN  HeartbeatLoop(todo \ {socket}, next)

\* the setInterval callback of startHeartbeat
HeartbeatTick ==
    /\ heartbeatInterval
    /\ LET st == <<socketSubscriptions, socketsByLine, readyState, isAlive,
                   exited, <<>> >>
           r == IF ~wss THEN st ELSE HeartbeatLoop(wssClients, st)
       IN  /\ socketSubscriptions' = r[1]
           /\ socketsByLine' = r[2]
           /\ readyState' = r[3]
           /\ isAlive' = r[4]
           /\ exited' = r[5]
           /\ RouterOut(Op("heartbeat", 0, "none", "none", TRUE), r[6])
    /\ silentTicks' = [c \in Conns |->
                          IF readyState'[c] # "OPEN" THEN 0
                          ELSE IF silentTicks[c] < 2 THEN silentTicks[c] + 1
                          ELSE silentTicks[c]]
    /\ UNCHANGED <<wss, wssClients, heartbeatInterval, feedVars, streamVars>>

\* stopTrafficSocketServer(); wss.close() stops accepting connections and
\* leaves the accepted ones open
StopTrafficSocketServer ==
    /\ wss \/ heartbeatInterval \/ DOMAIN socketSubscriptions # {}
    /\ heartbeatInterval' = FALSE
    /\ wss' = FALSE
    /\ wssClients' = {}
    /\ socketSubscriptions' = EmptyMap
    /\ socketsByLine' = EmptyMap
    /\ RouterOut(Op("stopTrafficSocketServer", 0, "none", "none", TRUE), <<>>)
    /\ UNCHANGED <<readyState, isAlive, silentTicks, exited, feedVars,
                   streamVars>>

\* notifyNewTrafficAlerts(alerts), called on its own
NotifyNewTrafficAlerts(alerts, throws) ==
    /\ RouterOut([Op("notifyNewTrafficAlerts", 0, "alerts", "none", TRUE)
                    EXCEPT !.handed = <<alerts>>],
                 notifyNewTrafficAlerts(wss, socketsByLine, readyState, alerts,
                                        throws))
    /\ UNCHANGED <<routerVars, feedVars, streamVars>>

NextRouter ==
    \/ InitTrafficSocketServer
    \/ StopTrafficSocketServer
    \/ HeartbeatTick
    \/ \E c \in Conns : Connection(c)
    \/ \E c \in Conns, m \in Messages : OnMessage(c, m)
    \/ \E c \in Conns : OnPong(c)
    \/ \E c \in Conns : PeerClosing(c)
    \/ \E c \in Conns : OnClose(c)
    \/ \E c \in Conns : OnError(c)
    \/ \E alerts \in NotifyInputs, throws \in ThrowSets :
          NotifyNewTrafficAlerts(alerts, throws)

\* the router on its own
SpecRouter == Init /\ [][NextRouter]_vars

----------------------------------------------------------------------------
(* tclService.ts: deduplication, diff and fetch of the alerts feed *)

RECURSIVE DedupLoop(_, _, _)
DedupLoop(alerts, seen, uniqueAlerts) ==
    IF alerts = <<>> THEN uniqueAlerts
    ELSE LET key == getAlertKey(Head(alerts))
         IN  IF key \notin seen
             THEN DedupLoop(Tail(alerts), seen \cup {key},
                            Append(uniqueAlerts, Head(alerts)))
             ELSE DedupLoop(Tail(alerts), seen, uniqueAlerts)

\* a variant that keeps the last record of each key
RECURSIVE deduplicateAlertsKeepLast(_)
deduplicateAlertsKeepLast(alerts) ==
    IF alerts = <<>> THEN <<>>
    ELSE IF \E i \in 2..Len(alerts) :
               getAlertKey(alerts[i]) = getAlertKey(Head(alerts))
         THEN deduplicateAlertsKeepLast(Tail(alerts))
         ELSE <<Head(alerts)>> \o deduplicateAlertsKeepLast(Tail(alerts))

\* a variant whose seen set forgets a key when it drops a duplicate of it
RECURSIVE DedupLoopForgetting(_, _, _)
DedupLoopForgetting(alerts, seen, uniqueAlerts) ==
    IF alerts = <<>> THEN uniqueAlerts
    ELSE LET key == getAlertKey(Head(alerts))
         IN  IF key \notin seen
             THEN DedupLoopForgetting(Tail(alerts), seen \cup {key},
                                      Append(uniqueAlerts, Head(alerts)))
             ELSE DedupLoopForgetting(Tail(alerts), seen \ {key}, uniqueAlerts)
deduplicateAlertsForgetting(alerts) == DedupLoopForgetting(alerts, {}, <<>>)

\* a variant that keeps every record, duplicates included
deduplicateAlertsKeepAll(alerts) == alerts

deduplicateAlerts(alerts) == DedupLoop(alerts, {}, <<>>)

\* process.env.TRAFFIC_FAKE_ALERT and TRAFFIC_FAKE_LINE: unset
TRAFFIC_FAKE_ALERT == ""
TRAFFIC_FAKE_LINE  == <<>>

\* applyFakeTrafficAlert(alerts): <<alerts, fakeAlertCounter>> after
applyFakeTrafficAlert(alerts, counter) ==
    IF TRAFFIC_FAKE_ALERT # "1" THEN <<alerts, counter>>
    ELSE LET line == IF Trim(TRAFFIC_FAKE_LINE) = Empty THEN A
                     ELSE Trim(TRAFFIC_FAKE_LINE)
             fakeAlert ==
               [titre |-> S(<<"T">>),
                message |-> S(<<"#">> \o NumberToString(counter + 1)),
                ligne_cli |-> S(line), cause |-> S(<<"t">>),
                type |-> S(<<"t">>), mode |-> S(<<"t">>)]
         IN  <<Append(alerts, fakeAlert), counter + 1>>

RECURSIVE IndexLoop(_, _)
IndexLoop(alerts, index) ==
    IF alerts = <<>> THEN index
    ELSE LET lineKey == getLineKey(Head(alerts))
             alertKey == getAlertKey(Head(alerts))
         IN  IF lineKey = Empty THEN IndexLoop(Tail(alerts), index)
             ELSE IF lineKey \in DOMAIN index
                  THEN IndexLoop(Tail(alerts),
                         MapSet(index, lineKey, index[lineKey] \cup {alertKey}))
                  ELSE IndexLoop(Tail(alerts), MapSet(index, lineKey, {alertKey}))

\* indexAlertsByLine(alerts): Map line -> Set of alert keys
indexAlertsByLine(alerts) == IndexLoop(alerts, EmptyMap)

RECURSIVE DetectLoop(_, _)
DetectLoop(alerts, previousIndex) ==
    IF alerts = <<>> THEN <<>>
    ELSE LET alert == Head(alerts)
             lineKey == getLineKey(alert)
             alertKey == getAlertKey(alert)
             rest == DetectLoop(Tail(alerts), previousIndex)
         IN  IF lineKey = Empty THEN rest
             ELSE IF lineKey \notin DOMAIN previousIndex
                     \/ alertKey \notin previousIndex[lineKey]
                  THEN <<alert>> \o rest
                  ELSE rest

\* a variant that classifies a record without a line like the others
detectNewAlertsUnkeyed(alerts, previousIndex) ==
    SelectSeq(alerts, LAMBDA alert :
                 \/ getLineKey(alert) \notin DOMAIN previousIndex
                 \/ getAlertKey(alert) \notin previousIndex[getLineKey(alert)])

\* a variant that compares topics only: a record is new when its line has no
\* entry in the previous index
detectNewAlertsByLine(alerts, previousIndex) ==
    SelectSeq(alerts, LAMBDA alert :
                 /\ getLineKey(alert) # Empty
                 /\ getLineKey(alert) \notin DOMAIN previousIndex)

\* detectNewAlerts(alerts, previousIndex)
detectNewAlerts(alerts, previousIndex) == DetectLoop(alerts, previousIndex)

\* what one upstream GET settles to
Rejected == [status |-> "rejected", hasValues |-> FALSE, values |-> <<>>]
Fulfilled(values) ==
    [status |-> "fulfilled", hasValues |-> TRUE, values |-> values]
FulfilledNoValues ==
    [status |-> "fulfilled", hasValues |-> FALSE, values |-> <<>>]

MainResults ==
    { Rejected, FulfilledNoValues, Fulfilled(<<rA1>>),
      Fulfilled(<<rA1, rA1v, rA2>>), Fulfilled(<<rN, rB>>) }
JuniorResults ==
    { Rejected, Fulfilled(<<rB, rA1v>>) }

\* data.values || []
ValuesOf(result) == IF result.hasValues THEN result.values ELSE <<>>

\* a variant that throws when either GET is rejected
fetchTrafficAlertsAllOrNothing(mainResult, juniorResult, counter) ==
    IF mainResult.status = "rejected" \/ juniorResult.status = "rejected"
    THEN [ok |-> FALSE, alerts |-> <<>>, counter |-> counter]
    ELSE LET r == applyFakeTrafficAlert(
                     deduplicateAlerts(ValuesOf(mainResult) \o ValuesOf(juniorResult)),
                     counter)
         IN  [ok |-> TRUE, alerts |-> r[1], counter |-> r[2]]

\* fetchTrafficAlerts(), given what the two GETs settled to:
\* [ok, alerts, counter]; ok = FALSE is the thrown Error
fetchTrafficAlerts(mainResult, juniorResult, counter) ==
    IF mainResult.status = "rejected"
    THEN [ok |-> FALSE, alerts |-> <<>>, counter |-> counter]
    ELSE LET mainAlerts == ValuesOf(mainResult)
             juniorAlerts == IF juniorResult.status = "fulfilled"
                             THEN ValuesOf(juniorResult) ELSE <<>>
             allAlerts == mainAlerts \o juniorAlerts
             r == applyFakeTrafficAlert(deduplicateAlerts(allAlerts), counter)
         IN  [ok |-> TRUE, alerts |-> r[1], counter |-> r[2]]

----------------------------------------------------------------------------
(* vehicleMonitoringService.ts: payloads and their vehicle count *)

\* a VehicleMonitoringDelivery: VehicleActivity is an array or is not
Delivery(isArray, activities) ==
    [isArray |-> isArray, VehicleActivity |-> activities]
SiriPayload(deliveries) == [kind |-> "siri", deliveries |-> deliveries]
\* a body without Siri.ServiceDelivery.VehicleMonitoringDelivery array
BarePayload == [kind |-> "bare", deliveries |-> <<>>]

RECURSIVE CountLoop(_, _)
CountLoop(deliveries, total) ==
    IF deliveries = <<>> THEN total
    ELSE CountLoop(Tail(deliveries),
                   IF ~Head(deliveries).isArray THEN total
                   ELSE total + Len(Head(deliveries).VehicleActivity))

\* extractVehicleCount(payload)
extractVehicleCount(payload) ==
    IF payload.kind # "siri" THEN 0 ELSE CountLoop(payload.deliveries, 0)

\* what the vehicle GET settles to: a rejection or a response body
VehicleResults ==
    { [ok |-> FALSE, data |-> NullPayload],
      [ok |-> TRUE, data |-> NullPayload],
      [ok |-> TRUE, data |-> BarePayload],
      [ok |-> TRUE, data |-> SiriPayload(<<Delivery(TRUE, <<"v1", "v2">>),
                                           Delivery(FALSE, <<>>),
                                           Delivery(TRUE, <<"v3">>)>>)] }

----------------------------------------------------------------------------
(* vehicleMonitoringStreamService.ts: the broadcast channel *)

\* a variant whose event carries the count and the date without the payload
SseEventWithoutPayload(to, event, cd) ==
    [to |-> to, event |-> event, count |-> cd.count,
     lastUpdated |-> cd.lastUpdated, payload |-> NullPayload, threw |-> FALSE]

SseEvent(to, event, cd) ==
    [to |-> to, event |-> event, count |-> cd.count,
     lastUpdated |-> cd.lastUpdated, payload |-> cd.payload,
     \* the call of write() threw
     threw |-> FALSE]

\* a variant without the catch around write(): the first call that throws
\* ends the loop
RECURSIVE WriteAllUncaught(_, _, _, _)
WriteAllUncaught(targets, event, cd, throws) ==
    IF targets = <<>> THEN <<>>
    ELSE IF Head(targets) \in throws
         THEN <<[SseEvent(Head(targets), event, cd) EXCEPT !.threw = TRUE]>>
         ELSE <<SseEvent(Head(targets), event, cd)>>
              \o WriteAllUncaught(Tail(targets), event, cd, throws)

\* for (const res of targets) { try { res.write(message) } catch {} }: a call
\* that throws (responses in throws) is caught and the loop goes on
RECURSIVE WriteAll(_, _, _, _)
WriteAll(targets, event, cd, throws) ==
    IF targets = <<>> THEN <<>>
    ELSE <<[SseEvent(Head(targets), event, cd)
              EXCEPT !.threw = Head(targets) \in throws]>>
         \o WriteAll(Tail(targets), event, cd, throws)

\* a variant that writes to every registered response, whatever the targets
sendVehicleMonitoringUpdateToAll(cd, targets, throws) ==
    WriteAll(clients \o SelectSeq(targets, LAMBDA res : res \notin Range(clients)),
             "positions", cd, throws)

\* sendVehicleMonitoringUpdate(cachedData, targets): the writes, in order
sendVehicleMonitoringUpdate(cd, targets, throws) ==
    WriteAll(targets, "positions", cd, throws)

\* a variant of startHeartbeat() without the test of heartbeatInterval
startStreamHeartbeatUnguarded(armed) == armed + 1

\* startHeartbeat() of the stream service: the timers armed after the call;
\* setInterval is not called again while heartbeatInterval is set
startStreamHeartbeat(armed) == IF armed > 0 THEN armed ELSE 1

\* stopHeartbeatIfIdle(), given the registry after the delete: clearInterval
\* disarms the timer that heartbeatInterval references
stopHeartbeatIfIdle(registry, armed) ==
    IF Len(registry) > 0 \/ armed = 0 THEN armed ELSE armed - 1

----------------------------------------------------------------------------
(* tclService.ts / vehicleMonitoringService.ts: cache, refresh, scheduler *)

\* a variant that looks at lastUpdated only
CacheNeverPopulated(cd, f) == cd[f].lastUpdated = null

\* the test of getCachedData / getVehicleMonitoringData and of the schedulers
CacheIsEmpty(cd, f) ==
    IF f = "alerts" THEN Len(cd[f].alerts) = 0 \/ cd[f].lastUpdated = null
    ELSE cd[f].payload = NullPayload \/ cd[f].lastUpdated = null

RefreshIntervalMs(f) ==
    IF f = "alerts" THEN TRAFFIC_REFRESH_INTERVAL_MS ELSE VEHICLE_REFRESH_INTERVAL_MS

\* a timer fires while the previous tick's fetch is pending only if the
\* interval is shorter than the fetch timeout
TickMayOverlap(f) == RefreshIntervalMs(f) < FETCH_TIMEOUT_MS

FreeId(infl) == CHOOSE i \in 1..MaxInFlight :
                   /\ \A inv \in infl : inv.id # i
                   /\ \A j \in 1..(i - 1) : \E inv \in infl : inv.id = j

\* the part of updateCachedData / updateCachedVehicleMonitoringData that runs
\* before the await: the invocation as it is suspended at its fetch
BeginUpdate(cd, infl, f, origin) ==
    LET previousAlerts == cd["alerts"].alerts
        hadPrevious == f = "alerts" /\ Len(previousAlerts) > 0
    IN  [id |-> FreeId(infl), feed |-> f, origin |-> origin,
         \* whether a refresh of the feed that began later has replaced the
         \* cache since (the ids of the suspended refreshes are in the order
         \* in which they began)
         overtaken |-> FALSE,
         previousAlerts |-> IF f = "alerts" THEN previousAlerts ELSE <<>>,
         hadPrevious |-> hadPrevious,
         previousIndex |-> IF hadPrevious THEN indexAlertsByLine(previousAlerts)
                           ELSE EmptyMap]

\* a variant that replaces the cache whether or not the fetch threw
ReplaceCacheAlways(cd, f, ok, snapshot) == [cd EXCEPT ![f] = snapshot]

\* the cache after the body of the try block: the replace is skipped when the
\* fetch throws
ReplaceCache(cd, f, ok, snapshot) ==
    IF ok THEN [cd EXCEPT ![f] = snapshot] ELSE cd

\* a variant that writes the new fields into the object the cache references
PreviousObjectOverwritten(cd, f, ok, snapshot) == IF ok THEN snapshot ELSE cd[f]

\* the object that the cache referenced when the update resumed, as it is when
\* the update returns: `cachedData = {...}` binds the variable to a new object
\* and writes nothing into the old one, which readers may still hold
PreviousObject(cd, f, ok, snapshot) == cd[f]

\* startVehicleMonitoringRefresh(), then app.listen():
\* <<refreshInterval, inflight, serverPc>> after
StartVehicle(cd, ri, infl) ==
    IF CacheIsEmpty(cd, "vehicle")
    THEN <<ri, infl \cup {BeginUpdate(cd, infl, "vehicle", "eager")},
           "startVehicleMonitoringRefresh">>
    ELSE <<[ri EXCEPT !["vehicle"] = TRUE], infl, "listening">>

\* a variant in which the failure of an eager refresh is not caught by the
\* start function: startServer() logs it and leaves the process
ResumeUncaught(inv, cd, ri, infl, pc) ==
    IF inv.origin # "eager" THEN <<ri, infl, pc>>
    ELSE IF cd[inv.feed].lastUpdated = null THEN <<ri, infl, "exit">>
    ELSE IF inv.feed = "alerts"
         THEN StartVehicle(cd, [ri EXCEPT !["alerts"] = TRUE], infl)
         ELSE <<[ri EXCEPT !["vehicle"] = TRUE], infl, "listening">>

\* the rest of startServer() once the caller of an update resumes
\* the suspended refreshes once inv has completed, numbered in the order in
\* which they began: a successful inv has overtaken the refreshes of its feed
\* that began before it
Settled(infl, inv, ok) ==
    {[w EXCEPT !.id = IF w.id > inv.id THEN w.id - 1 ELSE w.id,
               !.overtaken = @ \/ (ok /\ w.feed = inv.feed /\ w.id < inv.id)] :
        w \in infl \ {inv}}

Resume(inv, cd, ri, infl, pc) ==
    IF inv.origin # "eager" THEN <<ri, infl, pc>>
    ELSE IF inv.feed = "alerts"
         THEN StartVehicle(cd, [ri EXCEPT !["alerts"] = TRUE], infl)
         ELSE <<[ri EXCEPT !["vehicle"] = TRUE], infl, "listening">>

\* what the controller answers when its get-or-populate read completes
OkResp(cd, f) ==
    [status |-> 200, count |-> cd[f].count, lastUpdated |-> cd[f].lastUpdated,
     data |-> IF f = "alerts" THEN cd[f].alerts ELSE cd[f].payload]
ErrorResp == [status |-> 500, count |-> 0, lastUpdated |-> null, data |-> null]
\* a variant of a read that swallows the failure of its refresh
GetRespSwallowing(inv, ok, cd) ==
    IF inv.origin # "get" THEN NoResp ELSE OkResp(cd, inv.feed)
GetResp(inv, ok, cd) ==
    IF inv.origin # "get" THEN NoResp
    ELSE IF ok THEN OkResp(cd, inv.feed) ELSE ErrorResp

\* startServer(): startScheduledRefresh() up to its first await
StartServer ==
    /\ serverPc = "boot"
    /\ LET r == IF CacheIsEmpty(cachedData, "alerts")
                THEN <<refreshInterval,
                       inflight \cup {BeginUpdate(cachedData, inflight, "alerts", "eager")},
                       "startScheduledRefresh">>
                ELSE StartVehicle(cachedData,
                                  [refreshInterval EXCEPT !["alerts"] = TRUE],
                                  inflight)
       IN  /\ refreshInterval' = r[1]
           /\ inflight' = r[2]
           /\ serverPc' = r[3]
    /\ last' = Op("startServer", 0, "none", "none", TRUE)
    /\ sent' = <<>> /\ sse' = <<>> /\ resp' = NoResp
    /\ UNCHANGED <<cachedData, fakeAlertCounter, clock, routerVars, streamVars>>

\* the setInterval callback of a feed's scheduler, up to its await
TimerTick(f) ==
    /\ refreshInterval[f]
    /\ Cardinality(inflight) < MaxInFlight
    /\ TickMayOverlap(f)
         \/ ~\E inv \in inflight : inv.feed = f /\ inv.origin = "tick"
    /\ inflight' = inflight \cup {BeginUpdate(cachedData, inflight, f, "tick")}
    /\ last' = Op("tick", 0, f, "tick", TRUE)
    /\ sent' = <<>> /\ sse' = <<>> /\ resp' = NoResp
    /\ UNCHANGED <<cachedData, refreshInterval, fakeAlertCounter, serverPc,
                   clock, routerVars, streamVars>>

\* updateCachedData() resumes: the two GETs have settled
AlertsFetchSettled(inv, mainResult, juniorResult, throws) ==
    /\ inv \in inflight /\ inv.feed = "alerts"
    /\ LET r == fetchTrafficAlerts(mainResult, juniorResult, fakeAlertCounter)
           snapshot == [alerts |-> r.alerts, lastUpdated |-> Date(clock + 1),
                        count |-> Len(r.alerts)]
           cd == ReplaceCache(cachedData, "alerts", r.ok, snapshot)
           newAlerts == IF r.ok /\ inv.hadPrevious
                        THEN detectNewAlerts(r.alerts, inv.previousIndex)
                        ELSE <<>>
           next == Resume(inv, cd, refreshInterval, Settled(inflight, inv, r.ok),
                          serverPc)
       IN  /\ r.ok => clock < MaxClock
           /\ cachedData' = cd
           /\ fakeAlertCounter' = r.counter
           /\ clock' = IF r.ok THEN clock + 1 ELSE clock
           /\ refreshInterval' = next[1]
           /\ inflight' = next[2]
           /\ serverPc' = next[3]
           /\ last' = [Op("updateCachedData", 0, "alerts", inv.origin, r.ok)
                         EXCEPT !.arg = <<mainResult, juniorResult>>,
                                !.before = <<PreviousObject(cachedData, "alerts",
                                                            r.ok, snapshot)>>,
                                !.handed = IF Len(newAlerts) > 0
                                           THEN <<newAlerts>> ELSE <<>>]
           /\ sent' = IF Len(newAlerts) > 0
                      THEN notifyNewTrafficAlerts(wss, socketsByLine, readyState,
                                                  newAlerts, throws)
                      ELSE <<>>
           /\ sse' = <<>>
           /\ resp' = GetResp(inv, r.ok, cd)
    /\ UNCHANGED <<routerVars, streamVars>>

\* updateCachedVehicleMonitoringData() resumes: the GET has settled
VehicleFetchSettled(inv, result, throws) ==
    /\ inv \in inflight /\ inv.feed = "vehicle"
    /\ LET snapshot == [payload |-> result.data, lastUpdated |-> Date(clock + 1),
                        count |-> extractVehicleCount(result.data)]
           cd == ReplaceCache(cachedData, "vehicle", result.ok, snapshot)
           next == Resume(inv, cd, refreshInterval,
                          Settled(inflight, inv, result.ok), serverPc)
       IN  /\ result.ok => clock < MaxClock
           /\ cachedData' = cd
           /\ clock' = IF result.ok THEN clock + 1 ELSE clock
           /\ refreshInterval' = next[1]
           /\ inflight' = next[2]
           /\ serverPc' = next[3]
           /\ last' = [Op("updateCachedVehicleMonitoringData", 0, "vehicle",
                          inv.origin, result.ok)
                         EXCEPT !.arg = <<result>>,
                                !.before = <<PreviousObject(cachedData, "vehicle",
                                                            result.ok, snapshot)>>]
           /\ sent' = <<>>
           /\ sse' = IF result.ok
                     THEN sendVehicleMonitoringUpdate(cd["vehicle"], clients, throws)
                     ELSE <<>>
           /\ resp' = GetResp(inv, result.ok, cd)
    /\ UNCHANGED <<fakeAlertCounter, routerVars, streamVars>>

----------------------------------------------------------------------------
(* controllers: the polling reads *)

\* a variant of the status handlers that populates an empty cache first
GetStatusPopulating(f) ==
    /\ serverPc = "listening"
    /\ last' = Op("status", 0, f, "none", TRUE)
    /\ resp' = [status |-> 200, count |-> cachedData[f].count,
                lastUpdated |-> cachedData[f].lastUpdated, data |-> <<>>]
    /\ sent' = <<>> /\ sse' = <<>>
    /\ inflight' = IF CacheIsEmpty(cachedData, f)
                       /\ Cardinality(inflight) < MaxInFlight
                    THEN inflight \cup {BeginUpdate(cachedData, inflight, f, "tick")}
                    ELSE inflight
    /\ UNCHANGED <<cachedData, refreshInterval, fakeAlertCounter, serverPc,
                   clock, routerVars, streamVars>>

\* getStatus / getVehicleMonitoringStatus
GetStatus(f) ==
    /\ serverPc = "listening"
    /\ last' = Op("status", 0, f, "none", TRUE)
    /\ resp' = [status |-> 200, count |-> cachedData[f].count,
                lastUpdated |-> cachedData[f].lastUpdated, data |-> <<>>]
    /\ sent' = <<>> /\ sse' = <<>>
    /\ UNCHANGED <<feedVars, routerVars, streamVars>>

\* getAllAlerts / getVehicleMonitoring, up to the await of the get-or-populate
\* read (getCachedData / getVehicleMonitoringData) or, with a populated cache,
\* to the response
GetCached(f) ==
    /\ serverPc = "listening"
    /\ IF CacheIsEmpty(cachedData, f)
       THEN /\ Cardinality(inflight) < MaxInFlight
            /\ inflight' = inflight \cup {BeginUpdate(cachedData, inflight, f, "get")}
            /\ resp' = NoResp
            /\ last' = Op("get", 0, f, "get", FALSE)
       ELSE /\ inflight' = inflight
            /\ resp' = OkResp(cachedData, f)
            /\ last' = Op("get", 0, f, "none", TRUE)
    /\ sent' = <<>> /\ sse' = <<>>
    /\ UNCHANGED <<cachedData, refreshInterval, fakeAlertCounter, serverPc,
                   clock, routerVars, streamVars>>

----------------------------------------------------------------------------
(* vehicleMonitoringStreamService.ts: the handlers *)

StreamOut(op, events) ==
    /\ last' = op
    /\ sent' = <<>>
    /\ sse' = events
    /\ resp' = NoResp

\* registerVehicleMonitoringStream(res, initialPayload)
RegisterVehicleMonitoringStream(res, withInitial, throws) ==
    /\ serverPc = "listening"
    /\ res \notin sseOpen
    /\ sseOpen' = sseOpen \cup {res}
    /\ clients' = SetAdd(clients, res)
    /\ sseHeartbeat' = startStreamHeartbeat(sseHeartbeat)
    /\ StreamOut(Op("register", res, "vehicle", "none", withInitial),
                 IF withInitial
                 THEN sendVehicleMonitoringUpdate(cachedData["vehicle"], <<res>>, throws)
                 ELSE <<>>)
    /\ UNCHANGED <<feedVars, routerVars>>

\* res.on('close', ...)
StreamClose(res) ==
    /\ res \in sseOpen
    /\ sseOpen' = sseOpen \ {res}
    /\ clients' = SetDelete(clients, res)
    /\ sseHeartbeat' = stopHeartbeatIfIdle(clients', sseHeartbeat)
    /\ StreamOut(Op("streamClose", res, "vehicle", "none", TRUE), <<>>)
    /\ UNCHANGED <<feedVars, routerVars>>

\* the setInterval callback of startHeartbeat
StreamHeartbeatTick(throws) ==
    /\ sseHeartbeat > 0
    /\ StreamOut(Op("streamHeartbeat", 0, "vehicle", "none", TRUE),
                 WriteAll(clients, "heartbeat", EmptyVehicleCache, throws))
    /\ UNCHANGED <<feedVars, routerVars, streamVars>>

\* stopVehicleMonitoringStream()
StopVehicleMonitoringStream ==
    /\ sseHeartbeat > 0 \/ Len(clients) > 0
    /\ sseHeartbeat' = IF sseHeartbeat > 0 THEN sseHeartbeat - 1 ELSE 0
    /\ clients' = <<>>
    /\ StreamOut(Op("stopVehicleMonitoringStream", 0, "vehicle", "none", TRUE), <<>>)
    /\ UNCHANGED <<feedVars, routerVars, sseOpen>>

----------------------------------------------------------------------------
(* Specifications *)

\* stopScheduledRefresh(): clears the timer of the alerts feed if it is armed
StopScheduledRefresh ==
    /\ refreshInterval' = [refreshInterval EXCEPT !["alerts"] = FALSE]
    /\ last' = Op("stopScheduledRefresh", 0, "alerts", "none", TRUE)
    /\ sent' = <<>> /\ sse' = <<>> /\ resp' = NoResp
    /\ UNCHANGED <<cachedData, fakeAlertCounter, inflight, serverPc, clock,
                   routerVars, streamVars>>

\* stopVehicleMonitoringRefresh(): the same for the vehicle feed
StopVehicleMonitoringRefresh ==
    /\ refreshInterval' = [refreshInterval EXCEPT !["vehicle"] = FALSE]
    /\ last' = Op("stopVehicleMonitoringRefresh", 0, "vehicle", "none", TRUE)
    /\ sent' = <<>> /\ sse' = <<>> /\ resp' = NoResp
    /\ UNCHANGED <<cachedData, fakeAlertCounter, inflight, serverPc, clock,
                   routerVars, streamVars>>

NextFeeds ==
    \/ StartServer
    \/ \E f \in Feeds : TimerTick(f)
    \/ \E inv \in inflight, m \in MainResults, j \in JuniorResults :
          AlertsFetchSettled(inv, m, j, {})
    \/ \E inv \in inflight, v \in VehicleResults : VehicleFetchSettled(inv, v, {})
    \/ \E f \in Feeds : GetStatus(f)
    \/ \E f \in Feeds : GetCached(f)

NextStream ==
    \/ \E res \in SseConns, b \in BOOLEAN, throws \in SseThrowSets :
          RegisterVehicleMonitoringStream(res, b, throws)
    \/ \E res \in SseConns : StreamClose(res)
    \/ \E throws \in SseThrowSets : StreamHeartbeatTick(throws)
    \/ StopVehicleMonitoringStream

Next ==
    \/ NextRouter \/ NextFeeds \/ NextStream
    \/ StopScheduledRefresh \/ StopVehicleMonitoringRefresh

\* the whole program
Spec == Init /\ [][Next]_vars

\* the two caches, their schedulers and the polling reads
SpecFeeds == Init /\ [][NextFeeds]_vars

\* the subscribe requests of clients with long lists of favourites
NextLines ==
    \/ InitTrafficSocketServer
    \/ \E c \in Conns : Connection(c)
    \/ \E c \in Conns, l \in LongLinesInputs :
          OnMessage(c, Msg(TRUE, TRUE, TRUE, "subscribe", TRUE, l))
    \/ \E c \in Conns : OnClose(c)

SpecLines == Init /\ [][NextLines]_vars

\* the refreshes of both feeds with subscribers on both push transports
PushLines == <<S(A)>>
PushMainResults ==
    { Rejected, Fulfilled(<<rA1>>), Fulfilled(<<rA1, rA1v, rA2, rN>>) }
PushVehicleResults ==
    { [ok |-> FALSE, data |-> NullPayload], [ok |-> TRUE, data |-> BarePayload] }

NextPush ==
    \/ InitTrafficSocketServer
    \/ \E c \in Conns : Connection(c)
    \/ \E c \in Conns :
          OnMessage(c, Msg(TRUE, TRUE, TRUE, "subscribe", TRUE, PushLines))
    \/ StartServer
    \/ \E f \in Feeds : TimerTick(f)
    \/ \E inv \in inflight, m \in PushMainResults, throws \in ThrowSets :
          AlertsFetchSettled(inv, m, Rejected, throws)
    \/ \E inv \in inflight, v \in PushVehicleResults, throws \in SseThrowSets :
          VehicleFetchSettled(inv, v, throws)
    \/ \E res \in SseConns : RegisterVehicleMonitoringStream(res, TRUE, {})

SpecPush == Init /\ [][NextPush]_vars

\* the first refresh of the alerts feed, for every list of up to MaxAlerts
\* records that the main GET may return
DedupRecords == {rA1, rA1v, rA2, rB, rN}
DedupInputs == UNION { [1..k -> DedupRecords] : k \in 0..MaxAlerts }
NextDedup ==
    \/ StartServer
    \/ \E inv \in inflight, L \in DedupInputs, j \in JuniorResults :
          AlertsFetchSettled(inv, Fulfilled(L), j, {})

SpecDedup == Init /\ [][NextDedup]_vars

\* the broadcast channel and the refreshes of the vehicle feed, once the
\* server has started
NextBroadcast ==
    \/ StartServer
    \/ \E inv \in inflight, j \in JuniorResults :
          AlertsFetchSettled(inv, Fulfilled(<<rA1>>), j, {})
    \/ TimerTick("vehicle")
    \/ \E inv \in inflight, v \in VehicleResults, throws \in SseThrowSets :
          VehicleFetchSettled(inv, v, throws)
    \/ NextStream

SpecBroadcast == Init /\ [][NextBroadcast]_vars

\* the two schedulers: the eager refreshes, the timers and fetches that fail or
\* succeed. An armed interval timer keeps firing and every GET settles (at the
\* latest when its timeout expires)
RetryMainResults == { Rejected, Fulfilled(<<rA1>>) }
RetryVehicleResults ==
    { [ok |-> FALSE, data |-> NullPayload], [ok |-> TRUE, data |-> BarePayload] }
AlertsSettle ==
    \E inv \in inflight, m \in RetryMainResults :
       AlertsFetchSettled(inv, m, Rejected, {})
VehicleSettle ==
    \E inv \in inflight, v \in RetryVehicleResults :
       VehicleFetchSettled(inv, v, {})
NextScheduler ==
    \/ StartServer
    \/ \E f \in Feeds : TimerTick(f)
    \/ AlertsSettle
    \/ VehicleSettle

SpecScheduler ==
    /\ Init /\ [][NextScheduler]_vars
    /\ WF_vars(StartServer)
    /\ \A f \in Feeds : SF_vars(TimerTick(f))
    /\ WF_vars(AlertsSettle) /\ WF_vars(VehicleSettle)

----------------------------------------------------------------------------
(* Properties of the topic router *)

\* number of frames of the last handler sent to connection c for the record
\* at position i of alerts
AlertFramesTo(c, alert) ==
    Cardinality({k \in 1..Len(sent) :
                   sent[k].type = "alert" /\ sent[k].to = c /\ sent[k].alert = alert})

Subscribed(c, line) ==
    c \in DOMAIN socketSubscriptions /\ line \in socketSubscriptions[c]

\* C1: routing exactness. For every call notifyNewTrafficAlerts(alerts) and
\* every alert of it with a line key L, exactly one 'alert' frame for that
\* record is sent to every open connection whose current subscription contains
\* L, and none to a connection whose subscription does not contain L.
C1_RoutingExactness ==
    (last.op = "notifyNewTrafficAlerts") =>
        \A i \in 1..Len(last.handed[1]), c \in Conns :
            LET alert == last.handed[1][i]
                L == getLineKey(alert)
            IN  L # Empty =>
                  /\ (readyState[c] = "OPEN" /\ Subscribed(c, L))
                        => AlertFramesTo(c, alert) = 1
                  /\ ~Subscribed(c, L) => AlertFramesTo(c, alert) = 0

IsSubscribe(m) == m.parses /\ m.isObject /\ m.hasType /\ m.type = "subscribe"
                  /\ m.linesIsArray

\* the topics under which the reverse index references connection c
IndexedUnder(c) ==
    {line \in DOMAIN socketsByLine : c \in Range(socketsByLine[line])}

\* C2: subscription replacement. After subscribe(T1) and later subscribe(T2) of
\* one connection, the connection is indexed under exactly the topics of
\* normalised T2, and no topic of T1 that is not in T2 references it any more.
C2_SubscriptionReplacement ==
    (last.op = "message" /\ IsSubscribe(last.arg[1])) =>
        LET c == last.conn
            T2 == Range(normalizeLines([isArray |-> TRUE,
                                        items |-> last.arg[1].lines]).lines)
            T1 == IF last.before = <<>> THEN {} ELSE last.before[1]
        IN  /\ c \in DOMAIN socketSubscriptions
            /\ socketSubscriptions[c] = T2
            /\ IndexedUnder(c) = T2
            /\ \A line \in T1 \ T2 :
                  line \in DOMAIN socketsByLine => c \notin Range(socketsByLine[line])

\* a second subscribe that drops a topic of the first and brings a new one
C2_Witness ==
    /\ last.op = "message" /\ IsSubscribe(last.arg[1])
    /\ last.before # <<>>
    /\ last.before[1] \ socketSubscriptions[last.conn] # {}
    /\ socketSubscriptions[last.conn] \ last.before[1] # {}

----------------------------------------------------------------------------
(* Properties of the caches, the refreshes and the polling reads *)

UpdateOps == {"updateCachedData", "updateCachedVehicleMonitoringData"}

\* the invocation that the step resumes: it is suspended before, gone after
Resumed ==
    {inv \in inflight :
        /\ last'.op \in UpdateOps
        /\ last'.feed = inv.feed /\ last'.origin = inv.origin
        /\ Settled(inflight, inv, last'.ok) \subseteq inflight'}

\* the step is the resumption of an alerts refresh whose fetch succeeded
AlertsRefreshed == last'.op = "updateCachedData" /\ last'.ok /\ Resumed # {}

\* the records the last handler handed to the topic router
Handed(l) == IF l.handed = <<>> THEN {} ELSE Range(l.handed[1])

\* "new" records of newList against the snapshot previous, as the diff is
\* specified: topic present, and no record of previous with that topic and key
NewAgainst(newList, previous) ==
    { newList[i] : i \in
        { i \in 1..Len(newList) :
            /\ getLineKey(newList[i]) # Empty
            /\ ~\E j \in 1..Len(previous) :
                  /\ getLineKey(previous[j]) = getLineKey(newList[i])
                  /\ getAlertKey(previous[j]) = getAlertKey(newList[i]) } }

\* C3 as claimed: on every successful alerts refresh, whatever the previous
\* snapshot is (including an empty one), the records handed to the topic router
\* are exactly the records of the new list that are new against it.
C3_DiffAnyPrevious ==
    [][AlertsRefreshed =>
         \A inv \in Resumed :
            Handed(last') = NewAgainst(cachedData'["alerts"].alerts,
                                       inv.previousAlerts)]_vars

\* C3 amended: on every successful alerts refresh that started from a non-empty
\* snapshot, the records handed to the topic router are exactly the records of
\* the new deduplicated list with a topic key whose topic or whose key under that
\* topic is absent from the snapshot the refresh started from; a refresh that
\* started from an empty snapshot hands nothing to the router.
C3_DiffClassification ==
    [][AlertsRefreshed =>
         \A inv \in Resumed :
            Handed(last') =
               IF Len(inv.previousAlerts) > 0
               THEN NewAgainst(cachedData'["alerts"].alerts, inv.previousAlerts)
               ELSE {}]_vars

\* a refresh from a non-empty snapshot has handed some records of the new list
\* to the router and has held back others
C3_Witness ==
    /\ last.op = "updateCachedData" /\ last.ok
    /\ Handed(last) # {}
    /\ Range(cachedData["alerts"].alerts) \ Handed(last) # {}
    /\ \E r \in Range(cachedData["alerts"].alerts) \ Handed(last) :
          getLineKey(r) # Empty

\* C4: at most one refresh per feed is ever in flight.
C4_OneRefreshInFlight ==
    \A f \in Feeds : Cardinality({inv \in inflight : inv.feed = f}) <= 1

\* C5: a failed fetch leaves the cache unchanged and notifies nobody: the
\* resumption of a refresh whose fetch failed changes no snapshot and sends
\* nothing to the topic router or to the broadcast channel.
C5_FailedFetchKeepsCache ==
    [][(last'.op \in UpdateOps /\ ~last'.ok /\ Resumed # {}) =>
          /\ cachedData' = cachedData
          /\ last'.handed = <<>>
          /\ sent' = <<>>
          /\ sse' = <<>>]_vars

\* a refresh has failed on a populated cache
C5_Witness ==
    /\ last.op \in UpdateOps /\ ~last.ok
    /\ cachedData[last.feed].lastUpdated # null
    /\ cachedData[last.feed].count > 0

\* out holds one record for each key of in, taken from in, and no key twice
RecordsOf(out, in) ==
    /\ Range(out) \subseteq Range(in)
    /\ \A r \in Range(in) : \E q \in Range(out) : getAlertKey(q) = getAlertKey(r)
    /\ \A i, j \in 1..Len(out) : getAlertKey(out[i]) = getAlertKey(out[j]) => i = j

ExactlyOneRejected(main, junior) ==
    (main.status = "rejected") # (junior.status = "rejected")

ReadCompleted ==
    \/ last.op = "get" /\ last.origin = "none"
    \/ last.op \in UpdateOps /\ last.origin = "get"

CacheContents(f) ==
    IF f = "alerts" THEN cachedData[f].alerts ELSE cachedData[f].payload

\* C7 as claimed: a get-or-populate read completes by returning the current
\* cache contents whether or not the refresh it triggered succeeds.
C7_ReadAlwaysReturnsCache ==
    ReadCompleted =>
        /\ resp.status = 200
        /\ resp.data = CacheContents(last.feed)
        /\ resp.lastUpdated = cachedData[last.feed].lastUpdated

\* C7 amended: a get-or-populate read returns the current cache contents when
\* it triggers no refresh or when the refresh it triggered succeeds; when that
\* refresh fails the read fails too (the controller answers 500 without data).
C7_ReadReturnsCacheUnlessRefreshFails ==
    ReadCompleted =>
        IF last.ok
        THEN /\ resp.status = 200
             /\ resp.data = CacheContents(last.feed)
             /\ resp.lastUpdated = cachedData[last.feed].lastUpdated
        ELSE /\ resp.status = 500
             /\ resp.data = null

\* the refresh triggered by a read failed and the read failed with it
C7_Witness ==
    /\ last.op \in UpdateOps /\ last.origin = "get" /\ ~last.ok
    /\ resp.status = 500

\* the last handler was a get-or-populate read that started a fetch
ReadStartedFetch == last.op = "get" /\ last.origin = "get"

\* C8 as claimed: once a refresh of the feed has succeeded (lastUpdated is set),
\* no later get-or-populate read starts a fetch, even when that refresh stored
\* zero records.
C8_NoFetchOncePopulated ==
    ReadStartedFetch => cachedData[last.feed].lastUpdated = null

\* the cache holds nothing to serve: never refreshed, or refreshed to zero
\* records (alerts) or to a null payload (vehicle positions)
NothingCached(f) ==
    \/ cachedData[f].lastUpdated = null
    \/ f = "alerts" /\ cachedData[f].alerts = <<>>
    \/ f = "vehicle" /\ cachedData[f].payload.kind = "null"

\* C8 amended: a get-or-populate read starts a fetch if and only if the cache
\* holds nothing to serve at that moment: lastUpdated is null, or the last
\* successful refresh stored zero alert records (a null vehicle payload).
C8_FetchIffNothingCached ==
    (last.op = "get") => (ReadStartedFetch <=> NothingCached(last.feed))

\* a read has started a fetch although a refresh had succeeded before
C8_Witness ==
    /\ ReadStartedFetch
    /\ cachedData[last.feed].lastUpdated # null

\* C9: status() is a pure read: it returns the count and lastUpdated of the
\* snapshot in the cache, starts no fetch, and leaves the cache, the
\* subscription index and the broadcast registry unchanged.
C9_StatusIsPureRead ==
    [][(last'.op = "status") =>
          /\ resp'.status = 200
          /\ resp'.count = cachedData[last'.feed].count
          /\ resp'.lastUpdated = cachedData[last'.feed].lastUpdated
          /\ inflight' = inflight
          /\ cachedData' = cachedData
          /\ UNCHANGED <<indexVars, clients, refreshInterval, clock>>]_vars

\* status() has answered on a cache that was never populated
C9_Witness ==
    /\ last.op = "status"
    /\ cachedData[last.feed].lastUpdated = null
    /\ resp.count = 0 /\ resp.lastUpdated = null

\* C10 as claimed: when a feed starts with an empty cache, the first status()
\* call triggers a fetch, after which the cache is populated.
C10_StatusBootstraps ==
    (last.op = "status") =>
        \/ cachedData[last.feed].lastUpdated # null
        \/ \E inv \in inflight : inv.feed = last.feed

\* the number of records of a fetch after deduplication (alerts), the number
\* of vehicle activities of the payload (vehicle positions)
DistinctKeys(alerts) == Cardinality({getAlertKey(r) : r \in Range(alerts)})
Activities(payload) ==
    Cardinality({<<i, j>> \in (1..Len(payload.deliveries)) \X (1..3) :
                    /\ payload.deliveries[i].isArray
                    /\ j <= Len(payload.deliveries[i].VehicleActivity)})
FetchedCount(l) ==
    IF l.feed = "alerts"
    THEN DistinctKeys(ValuesOf(l.arg[1]) \o
                      (IF l.arg[2].status = "fulfilled" THEN ValuesOf(l.arg[2])
                       ELSE <<>>))
    ELSE IF l.arg[1].data.kind = "siri" THEN Activities(l.arg[1].data) ELSE 0

\* C10 amended: when a feed's cache is empty, the first get-or-populate read
\* (not status(), which never fetches) starts a fetch; when that fetch succeeds
\* the cache count equals the number of fetched records after deduplication
\* and the read answers with that snapshot.
C10_ReadBootstraps ==
    /\ (last.op = "get" /\ cachedData[last.feed].lastUpdated = null) =>
          \E inv \in inflight : inv.feed = last.feed /\ inv.origin = "get"
    /\ (last.op \in UpdateOps /\ last.origin = "get" /\ last.ok) =>
          /\ cachedData[last.feed].count = FetchedCount(last)
          /\ resp.status = 200
          /\ resp.count = cachedData[last.feed].count
    /\ (last.op = "status" /\ cachedData[last.feed].lastUpdated = null) =>
          /\ resp.count = 0
          /\ ~\E inv \in inflight : inv.feed = last.feed /\ inv.origin = "status"

\* a read has populated an empty alerts cache from a fetch that held duplicates
C10_Witness ==
    /\ last.op = "updateCachedData" /\ last.origin = "get" /\ last.ok
    /\ cachedData["alerts"].lastUpdated = Date(1)
    /\ cachedData["alerts"].count > 0
    /\ cachedData["alerts"].count < Len(ValuesOf(last.arg[1]))

----------------------------------------------------------------------------
(* Properties of the router heartbeat and of the connection lifecycle *)

\* the step is a tick of the router heartbeat
HeartbeatStep == last'.op = "heartbeat"

\* the connection has been accepted and its 'close' event has not been emitted
Accepted(c) == readyState[c] \in {"OPEN", "CLOSING"}

\* the connection is in no topic bucket of the reverse index
InNoBucket(c, byLine) == \A line \in DOMAIN byLine : c \notin Range(byLine[line])

ProbesTo(c, frames) ==
    Cardinality({k \in 1..Len(frames) :
                   frames[k].type = "ping" /\ frames[k].to = c})

\* C11: heartbeat step and eviction. At every router heartbeat tick, each
\* connection that has not answered the previous probe (isAlive false) is
\* force-closed and removed from every topic bucket and from the forward
\* subscription map; every other connection is marked not-yet-answered and,
\* when it is open, sent one new probe.
C11_HeartbeatStep ==
    [][HeartbeatStep =>
         \A c \in Conns :
            Accepted(c) =>
               IF ~isAlive[c]
               THEN /\ readyState'[c] # "OPEN"
                    /\ c \notin DOMAIN socketSubscriptions'
                    /\ InNoBucket(c, socketsByLine')
                    /\ ProbesTo(c, sent') = 0
               ELSE /\ ~isAlive'[c]
                    /\ readyState'[c] = readyState[c]
                    /\ ProbesTo(c, sent') = IF readyState[c] = "OPEN" THEN 1 ELSE 0]_vars

\* C12: bounded lifetime of half-dead connections. A connection that stops
\* answering probes is force-closed at or before the second heartbeat tick that
\* follows: no connection is still open after two ticks without an answer.
C12_BoundedLifetime ==
    \A c \in Conns : readyState[c] = "OPEN" => silentTicks[c] < 2

\* the connection's exit event (transport close, transport error, heartbeat
\* termination) has been processed
ExitProcessed(c) == c \in exited \/ readyState[c] = "CLOSED"

\* C13: registries never outlive a closed connection. Once a connection's exit
\* event has been processed it is in no topic bucket and has no entry in the
\* forward subscription map, whatever is processed afterwards; an SSE response
\* whose close event has been processed is not in the broadcast registry.
C13_NoRegistryAfterExit ==
    /\ \A c \in Conns :
          ExitProcessed(c) =>
             /\ c \notin DOMAIN socketSubscriptions
             /\ InNoBucket(c, socketsByLine)
    /\ \A res \in SseConns : res \notin sseOpen => res \notin Range(clients)

----------------------------------------------------------------------------
(* Properties of the client messages and of the normalisation *)

\* the step is the handling of a message of an open connection
MessageStep == last'.op = "message" /\ readyState[last'.conn] = "OPEN"

\* the error a malformed message is answered with, "" for a well-formed one
ErrorOf(m) ==
    IF ~m.parses THEN "invalid_json"
    ELSE IF ~(m.isObject /\ m.hasType) THEN "invalid_message"
    ELSE IF m.type = "subscribe" /\ ~m.linesIsArray THEN "invalid_lines"
    ELSE IF m.type \notin {"subscribe", "ping"} THEN "unknown_type"
    ELSE ""

\* C14: malformed client input never closes the connection. Every message of
\* an open connection that is unparsable, not an object with a type, a subscribe
\* without an array of lines, or of an unknown type is answered with exactly one
\* error frame (invalid_json, invalid_message, invalid_lines, unknown_type);
\* the connection stays open and keeps its subscription, and every valid
\* subscribe of an open connection is acknowledged and indexed.
C14_MalformedInputKeepsConnection ==
    [][MessageStep =>
         LET c == last'.conn
             m == last'.arg[1]
         IN  /\ ErrorOf(m) # "" =>
                  /\ sent' = <<ErrorFrame(c, ErrorOf(m))>>
                  /\ readyState' = readyState
                  /\ UNCHANGED <<indexVars, wssClients, exited, isAlive>>
             /\ IsSubscribe(m) =>
                  /\ Len(sent') = 1 /\ sent'[1].type = "subscribed" /\ sent'[1].to = c
                  /\ readyState' = readyState
                  /\ c \in DOMAIN socketSubscriptions']_vars

\* an open connection with a subscription has sent malformed input, has been
\* answered with an error frame and is still open and subscribed
C14_Witness ==
    /\ last.op = "message"
    /\ ErrorOf(last.arg[1]) = "invalid_lines"
    /\ Len(sent) = 1 /\ sent[1].type = "error"
    /\ readyState[last.conn] = "OPEN"
    /\ last.before # <<>> /\ last.before[1] # {}
    /\ socketSubscriptions[last.conn] = last.before[1]

\* the last handler acknowledged a valid subscribe
SubscribeAcked ==
    /\ last.op = "message" /\ IsSubscribe(last.arg[1])
    /\ Len(sent) = 1 /\ sent[1].type = "subscribed"

\* the string without its leading and trailing spaces
Trimmed(str) ==
    LET solid == {i \in 1..Len(str) : str[i] # SP}
    IN  IF solid = {} THEN Empty
        ELSE SubSeq(str, CHOOSE i \in solid : \A j \in solid : i <= j,
                         CHOOSE i \in solid : \A j \in solid : j <= i)

\* the topic an entry of a subscribe list stands for, Empty when it is dropped:
\* strings trimmed, numbers in their string form, nothing else
TopicOf(item) ==
    IF item.t = "string" THEN Trimmed(item.s)
    ELSE IF item.t = "number" THEN NumberToString(item.n)
    ELSE Empty

\* the same, with booleans in their string form too
TopicOfPrimitive(item) ==
    IF item.t = "boolean"
    THEN (IF item.n = 1 THEN <<"t", "r", "u", "e">> ELSE <<"f", "a", "l", "s", "e">>)
    ELSE TopicOf(item)

\* the positions of the first occurrences of the non-empty strings of strs
FirstOccurrences(strs) ==
    {i \in 1..Len(strs) :
        strs[i] # Empty /\ \A j \in 1..(i - 1) : strs[j] # strs[i]}

\* the first occurrences of the non-empty strings of strs, in order, at most
\* cap of them
DistinctInOrder(strs, cap) ==
    LET kept == FirstOccurrences(strs)
        n == IF Cardinality(kept) < cap THEN Cardinality(kept) ELSE cap
    IN  [k \in 1..n |->
           strs[CHOOSE i \in kept : Cardinality({j \in kept : j <= i}) = k]]

\* C15: truncation flag, only-if direction. subscribe reports truncated = true
\* only if the input, after normalization (trim, drop empty entries, drop
\* duplicates), contains more than MAX_FAVORITES distinct topics.
C15_TruncatedOnlyIfOverCap ==
    SubscribeAcked =>
        LET items == last.arg[1].lines
            topics == [i \in 1..Len(items) |-> TopicOfPrimitive(items[i])]
        IN  sent[1].truncated =>
               Cardinality(FirstOccurrences(topics)) > MAX_FAVORITES

\* every entry is a topic string and no two of them are equal after trimming
DistinctTopicStrings(items) ==
    /\ \A i \in 1..Len(items) : items[i].t = "string" /\ Trimmed(items[i].s) # Empty
    /\ \A i, j \in 1..Len(items) :
          Trimmed(items[i].s) = Trimmed(items[j].s) => i = j

\* C16: truncation. Subscribing with more than MAX_FAVORITES distinct topic
\* strings retains exactly the first MAX_FAVORITES of them in input order and
\* reports truncated = true; subscribing with MAX_FAVORITES distinct topic
\* strings or fewer retains all of them and reports truncated = false.
C16_Truncation ==
    (SubscribeAcked /\ DistinctTopicStrings(last.arg[1].lines)) =>
        LET items == last.arg[1].lines
            n == IF Len(items) > MAX_FAVORITES THEN MAX_FAVORITES ELSE Len(items)
        IN  /\ sent[1].lines = [i \in 1..n |-> Trimmed(items[i].s)]
            /\ sent[1].truncated = (Len(items) > MAX_FAVORITES)
            /\ socketSubscriptions[last.conn] = {Trimmed(items[i].s) : i \in 1..n}

\* a subscribe with more distinct topic strings than the cap has been truncated
C16_Witness ==
    /\ SubscribeAcked /\ DistinctTopicStrings(last.arg[1].lines)
    /\ Len(last.arg[1].lines) = MaxLines
    /\ Len(sent[1].lines) = MAX_FAVORITES
    /\ sent[1].truncated

\* C17 as claimed: the normalized topic list is the input in first-occurrence
\* order where every string is trimmed, every non-string primitive (number,
\* boolean) is replaced by its string form and kept, and empty entries and
\* duplicates are dropped (up to the cap).
C17_PrimitivesStringified ==
    SubscribeAcked =>
        LET items == last.arg[1].lines
        IN  sent[1].lines =
               DistinctInOrder([i \in 1..Len(items) |-> TopicOfPrimitive(items[i])],
                               MAX_FAVORITES)

\* C17 amended: the normalized topic list is the input in first-occurrence
\* order where every string is trimmed and every number is replaced by its
\* string form; booleans, objects and every other entry are dropped like empty
\* entries, duplicates (compared after normalization) are dropped, and the list
\* stops at MAX_FAVORITES topics.
C17_NumbersStringified ==
    SubscribeAcked =>
        LET items == last.arg[1].lines
        IN  sent[1].lines =
               DistinctInOrder([i \in 1..Len(items) |-> TopicOf(items[i])],
                               MAX_FAVORITES)

\* a list with a boolean, a number, padded strings and a duplicate has been
\* normalized: the number is first, the boolean is gone
C17_Witness ==
    /\ SubscribeAcked
    /\ \E i \in 1..Len(last.arg[1].lines) : last.arg[1].lines[i].t = "boolean"
    /\ \E i \in 1..Len(last.arg[1].lines) : last.arg[1].lines[i].t = "number"
    /\ Len(sent[1].lines) > 1
    /\ Len(sent[1].lines) + 1 < Len(last.arg[1].lines)
    /\ sent[1].lines[1] = <<"0">>

\* C18: subscription cap invariant. In every reachable state every
\* connection's subscription set holds at most MAX_FAVORITES distinct topic
\* strings, none of them empty, after any sequence of subscribe requests.
C18_SubscriptionCap ==
    \A c \in DOMAIN socketSubscriptions :
       /\ Cardinality(socketSubscriptions[c]) <= MAX_FAVORITES
       /\ Empty \notin socketSubscriptions[c]
       /\ \A line \in socketSubscriptions[c] : Trimmed(line) = line

\* a connection that subscribed with more entries than the cap holds exactly
\* MAX_FAVORITES topics, and the other connection holds a subscription too
C18_Witness ==
    /\ SubscribeAcked
    /\ Len(last.arg[1].lines) > MAX_FAVORITES
    /\ Cardinality(socketSubscriptions[last.conn]) = MAX_FAVORITES
    /\ \E c \in DOMAIN socketSubscriptions :
          c # last.conn /\ socketSubscriptions[c] # {}

\* C19: no empty topic buckets. In every reachable state the reverse index
\* maps no topic to an empty set of connections: a bucket whose last subscriber
\* is removed by a re-subscribe, a close, an error or a heartbeat eviction is
\* deleted from the index.
C19_NoEmptyBuckets ==
    \A line \in DOMAIN socketsByLine :
       /\ Len(socketsByLine[line]) > 0
       /\ \A i, j \in 1..Len(socketsByLine[line]) :
             socketsByLine[line][i] = socketsByLine[line][j] => i = j

\* a re-subscribe has removed the last subscriber of a topic while another
\* topic keeps its bucket
C19_Witness ==
    /\ last.op = "message" /\ IsSubscribe(last.arg[1])
    /\ last.before # <<>>
    /\ \E line \in last.before[1] : line \notin DOMAIN socketsByLine
    /\ DOMAIN socketsByLine # {}

----------------------------------------------------------------------------
(* Properties of a refresh and its notifications *)

\* the last handler is a refresh whose fetch succeeded
FetchSucceeded ==
    \/ last.op = "updateCachedData" /\ last.arg[1].status = "fulfilled"
    \/ last.op = "updateCachedVehicleMonitoringData" /\ last.arg[1].ok

\* a call of send() or write() of the last handler threw
DeliveryFailed ==
    \/ \E i \in 1..Len(sent) : sent[i].threw
    \/ \E i \in 1..Len(sse) : sse[i].threw

PositionsTo(res) ==
    {k \in 1..Len(sse) : sse[k].event = "positions" /\ sse[k].to = res}

\* C20: replace, then notify, never roll back. Whenever a handler has pushed
\* an alert frame or a positions event, the cache holds the snapshot that
\* contains the pushed record (the alert is a record of the alerts cache; the
\* event carries the count, date and payload of the vehicle cache). A refresh
\* of either feed whose fetch succeeded completes successfully with the cache
\* holding the snapshot of this refresh, also when a send() or write() of its
\* notification threw: the failure is caught, so every other open subscriber
\* of the topic and every other registered stream is still served.
C20_ReplaceThenNotify ==
    /\ \A i \in 1..Len(sent) : sent[i].type = "alert" =>
          /\ last.op = "updateCachedData"
          /\ sent[i].alert \in Range(cachedData["alerts"].alerts)
    /\ \A i \in 1..Len(sse) : sse[i].event = "positions" =>
          /\ sse[i].count = cachedData["vehicle"].count
          /\ sse[i].lastUpdated = cachedData["vehicle"].lastUpdated
          /\ sse[i].payload = cachedData["vehicle"].payload
    /\ FetchSucceeded =>
          /\ last.ok
          /\ cachedData[last.feed].lastUpdated = Date(clock)
          /\ last.feed = "alerts" =>
                /\ cachedData["alerts"].count = Len(cachedData["alerts"].alerts)
                /\ Handed(last) \subseteq Range(cachedData["alerts"].alerts)
                /\ \A alert \in Handed(last), c \in Conns :
                      (readyState[c] = "OPEN" /\ Subscribed(c, getLineKey(alert)))
                         => AlertFramesTo(c, alert) >= 1
          /\ last.feed = "vehicle" =>
                /\ cachedData["vehicle"].payload = last.arg[1].data
                /\ \A k \in 1..Len(clients) : PositionsTo(clients[k]) # {}

\* a refresh of the alerts feed has replaced the cache and pushed a new alert
\* to two subscribers; the send() to the first one threw
C20_Witness ==
    /\ last.op = "updateCachedData" /\ FetchSucceeded /\ DeliveryFailed
    /\ \E i, k \in 1..Len(sent) :
          /\ i < k
          /\ sent[i].threw /\ ~sent[k].threw
          /\ sent[i].to # sent[k].to
          /\ sent[i].alert = sent[k].alert
    /\ cachedData["alerts"].lastUpdated = Date(clock)

----------------------------------------------------------------------------
(* Properties of the diff baseline and of the snapshots *)

\* C21: diff baseline. The TopicIndex against which a refresh classifies the
\* new records is built from the snapshot that its replace overwrites: when a
\* successful alerts refresh that classifies resumes, its index is the index of
\* the list cached immediately before the replace, also when another refresh
\* of the feed completed while this one was suspended at its fetch.
C21_DiffBaseline ==
    [][AlertsRefreshed =>
         \A inv \in Resumed :
            inv.hadPrevious =>
               /\ inv.previousAlerts = cachedData["alerts"].alerts
               /\ inv.previousIndex =
                     indexAlertsByLine(cachedData["alerts"].alerts)]_vars

\* the alerts snapshot is well formed
WellFormed(snapshot) ==
    /\ snapshot.count = Len(snapshot.alerts)
    /\ snapshot.lastUpdated = null => snapshot.alerts = <<>> /\ snapshot.count = 0

\* the step leaves the alerts cache alone or swaps in the whole snapshot of
\* the refresh that resumed: its records, their number and its own date
WholeSwap ==
    \/ cachedData'["alerts"] = cachedData["alerts"]
    \/ /\ AlertsRefreshed
       /\ cachedData'["alerts"].lastUpdated = Date(clock')
       /\ clock' = clock + 1
       /\ \A f \in Feeds : cachedData[f].lastUpdated # Date(clock')
       /\ \E m \in MainResults, j \in JuniorResults :
             /\ last'.arg = <<m, j>>
             /\ cachedData'["alerts"].alerts =
                   fetchTrafficAlerts(m, j, fakeAlertCounter).alerts

\* a polling read of the alerts feed that has answered 200 in this step
\* answers with the fields of the one snapshot cached at that moment
ReadsOneSnapshot ==
    (last'.feed = "alerts" /\ resp'.status = 200) =>
        /\ resp'.count = cachedData'["alerts"].count
        /\ resp'.lastUpdated = cachedData'["alerts"].lastUpdated
        /\ last'.op # "status" => resp'.data = cachedData'["alerts"].alerts

\* the object a reader may hold is as it was when the cache referenced it
HeldObjectUntouched ==
    last'.op = "updateCachedData" => last'.before = <<cachedData["alerts"]>>

\* C22: snapshot consistency. The alerts cache starts as the empty snapshot
\* with lastUpdated absent; in every reachable state, refreshes suspended at
\* their fetch or not, count = length(alerts) and lastUpdated = null implies no
\* alerts and count = 0; every step leaves the snapshot alone or swaps in the
\* whole snapshot of one refresh, so that a reader gets the records, the count
\* and the date of the same refresh; the object replaced is not written to.
C22_SnapshotConsistency ==
    /\ cachedData["alerts"] = EmptyAlertsCache
    /\ []WellFormed(cachedData["alerts"])
    /\ [][WholeSwap /\ ReadsOneSnapshot /\ HeldObjectUntouched]_vars

\* a refresh has replaced a populated snapshot by another one while a second
\* refresh of the feed is suspended at its fetch
C22_Witness ==
    /\ last.op = "updateCachedData" /\ last.ok
    /\ last.before[1].alerts # <<>>
    /\ last.before[1].alerts # cachedData["alerts"].alerts
    /\ WellFormed(last.before[1])
    /\ \E inv \in inflight : inv.feed = "alerts"

----------------------------------------------------------------------------
(* Properties of records without a topic key *)

\* the records the upstream returned to the refresh that resumed last
Fetched(l) ==
    Range(ValuesOf(l.arg[1]))
       \cup (IF l.arg[2].status = "fulfilled" THEN Range(ValuesOf(l.arg[2]))
             ELSE {})

Unkeyed(records) == {r \in records : getLineKey(r) = Empty}

\* C23: records without a topic key. After every successful alerts refresh,
\* no record without a topicKey has been handed to the topic router and no
\* alert frame carries one, but every such record of the fetched list is in
\* the cached snapshot that polling reads answer with (once per dedupKey) and
\* is counted in its count.
C23_UnkeyedRecords ==
    (last.op = "updateCachedData" /\ last.ok) =>
        /\ Unkeyed(Handed(last)) = {}
        /\ \A i \in 1..Len(sent) :
              sent[i].type = "alert" =>
                 sent[i].line # Empty /\ getLineKey(sent[i].alert) # Empty
        /\ \A r \in Unkeyed(Fetched(last)) :
              \E k \in 1..Len(cachedData["alerts"].alerts) :
                 /\ getAlertKey(cachedData["alerts"].alerts[k]) = getAlertKey(r)
                 /\ getLineKey(cachedData["alerts"].alerts[k]) = Empty
        /\ cachedData["alerts"].count = Len(cachedData["alerts"].alerts)

\* a refresh has fetched a record without a topic key next to a new record of
\* a subscribed topic: the subscriber got a frame for the latter only
C23_Witness ==
    /\ last.op = "updateCachedData" /\ last.ok
    /\ Unkeyed(Fetched(last)) # {}
    /\ Unkeyed(Range(cachedData["alerts"].alerts)) # {}
    /\ Handed(last) # {}
    /\ \E i \in 1..Len(sent) : sent[i].type = "alert"

----------------------------------------------------------------------------
(* Properties of the deduplication *)

\* the list that the refresh which resumed last has deduplicated
AllAlerts(l) ==
    ValuesOf(l.arg[1])
       \o (IF l.arg[2].status = "fulfilled" THEN ValuesOf(l.arg[2]) ELSE <<>>)

\* the records of list at the first position of their dedupKey, in input order
RECURSIVE FirstOfEachKey(_, _)
FirstOfEachKey(list, i) ==
    IF i > Len(list) THEN <<>>
    ELSE (IF \A j \in 1..(i - 1) : getAlertKey(list[j]) # getAlertKey(list[i])
          THEN <<list[i]>> ELSE <<>>)
         \o FirstOfEachKey(list, i + 1)

KeysOf(list) == {getAlertKey(list[i]) : i \in 1..Len(list)}

\* C24: deduplication keeps first occurrences. For every fetched list,
\* deduplicateAlerts returns the subsequence made of the first record of each
\* distinct dedupKey, in input order: no two records of the output have the
\* same dedupKey and every dedupKey of the input appears in it.
C24_DedupKeepsFirst ==
    last.op = "updateCachedData" =>
        LET list == AllAlerts(last)
            out == deduplicateAlerts(list)
        IN  /\ out = FirstOfEachKey(list, 1)
            /\ \A i, j \in 1..Len(out) :
                  getAlertKey(out[i]) = getAlertKey(out[j]) => i = j
            /\ KeysOf(out) = KeysOf(list)
            /\ last.ok => cachedData["alerts"].alerts = out

\* a fetched list in which a record follows another record of its dedupKey
\* that differs from it, with a record of another key in between
C24_Witness ==
    /\ last.op = "updateCachedData" /\ last.ok
    /\ \E i, j, k \in 1..Len(AllAlerts(last)) :
          /\ i < j /\ j < k
          /\ getAlertKey(AllAlerts(last)[i]) = getAlertKey(AllAlerts(last)[k])
          /\ AllAlerts(last)[i] # AllAlerts(last)[k]
          /\ getAlertKey(AllAlerts(last)[i]) # getAlertKey(AllAlerts(last)[j])
    /\ Len(cachedData["alerts"].alerts) < Len(AllAlerts(last))

\* C25: deduplication is idempotent. For every fetched list L,
\* deduplicateAlerts(deduplicateAlerts(L)) equals deduplicateAlerts(L): same
\* length, same order, same keys.
C25_DedupIdempotent ==
    last.op = "updateCachedData" =>
        LET once == deduplicateAlerts(AllAlerts(last))
            twice == deduplicateAlerts(once)
        IN  /\ twice = once
            /\ Len(twice) = Len(once)
            /\ \A i \in 1..Len(once) : getAlertKey(twice[i]) = getAlertKey(once[i])

\* a fetched list with three records of one dedupKey, which the first pass
\* has shortened
C25_Witness ==
    /\ last.op = "updateCachedData" /\ last.ok
    /\ \E i, j, k \in 1..Len(AllAlerts(last)) :
          /\ i < j /\ j < k
          /\ getAlertKey(AllAlerts(last)[i]) = getAlertKey(AllAlerts(last)[j])
          /\ getAlertKey(AllAlerts(last)[j]) = getAlertKey(AllAlerts(last)[k])
    /\ Len(deduplicateAlerts(AllAlerts(last))) < Len(AllAlerts(last))
    /\ Len(deduplicateAlerts(AllAlerts(last))) > 1

----------------------------------------------------------------------------
(* Properties of the broadcast channel *)

\* C26: the broadcast heartbeat runs iff the registry is non-empty. In every
\* reachable state of the broadcast channel, after any sequence of register,
\* connection close and stopVehicleMonitoringStream, the shared heartbeat
\* timer is armed if and only if at least one connection is registered, and
\* at most one heartbeat timer exists.
C26_HeartbeatIffRegistered ==
    /\ sseHeartbeat > 0 <=> Len(clients) > 0
    /\ sseHeartbeat <= 1

\* a connection has registered after the channel was stopped, while a
\* connection of before the stop is still open: the heartbeat runs again
C26_Witness ==
    /\ last.op = "register"
    /\ sseOpen \ Range(clients) # {}
    /\ clients = <<last.conn>>
    /\ sseHeartbeat = 1

\* the event that a push of the snapshot cd writes to res
Positions(res, cd) == SseEvent(res, "positions", cd)

\* event e is the event expected, delivered or not
SameEvent(e, expected) == [e EXCEPT !.threw = FALSE] = expected

\* C27: late joiner. register(connection, initialSnapshot) adds the connection
\* to the registry and, when an initial snapshot is supplied, writes exactly
\* one positions event carrying that snapshot to that connection only: no
\* other registered connection receives anything from the register call, and
\* with no initial snapshot nothing is written.
C27_LateJoiner ==
    last.op = "register" =>
        /\ last.conn \in Range(clients)
        /\ IF last.ok
           THEN /\ Len(sse) = 1
                /\ SameEvent(sse[1], Positions(last.conn, cachedData["vehicle"]))
           ELSE sse = <<>>

\* a second connection has registered with the populated snapshot as its
\* initial snapshot
C27_Witness ==
    /\ last.op = "register" /\ last.ok
    /\ Len(clients) = 2 /\ clients[2] = last.conn
    /\ cachedData["vehicle"].payload # NullPayload
    /\ Len(sse) = 1 /\ sse[1].to = last.conn

\* the last handler is a vehicle refresh whose fetch succeeded
VehicleRefreshed ==
    last.op = "updateCachedVehicleMonitoringData" /\ last.arg[1].ok

\* C28: the broadcast push tolerates write failures. The push of a refresh
\* writes the same message to every target: a write that throws on one target
\* does not prevent the write to any other target, does not make the push (and
\* the refresh) fail, and does not remove the failing target from the
\* registry.
C28_PushToleratesWriteFailures ==
    [][VehicleRefreshed' =>
         /\ last'.ok
         /\ Len(sse') = Len(clients)
         /\ \A k \in 1..Len(clients) :
               /\ sse'[k].to = clients[k]
               /\ [sse'[k] EXCEPT !.to = 0, !.threw = FALSE]
                     = [sse'[1] EXCEPT !.to = 0, !.threw = FALSE]
         /\ clients' = clients]_vars

\* a refresh has pushed to two connections; the write to the first one threw
C28_Witness ==
    /\ VehicleRefreshed
    /\ Len(clients) = 2 /\ Len(sse) = 2
    /\ sse[1].threw /\ ~sse[2].threw
    /\ sse[1].to = clients[1] /\ sse[2].to = clients[2]

\* C29: every refreshed snapshot is broadcast. A successful vehicle-positions
\* refresh has written, when it completes, one positions event carrying
\* exactly the new snapshot (its count, lastUpdated and payload) to every
\* connection registered at that moment; a failed refresh broadcasts nothing.
C29_RefreshedSnapshotBroadcast ==
    last.op = "updateCachedVehicleMonitoringData" =>
        IF last.arg[1].ok
        THEN LET new == [payload |-> last.arg[1].data,
                         lastUpdated |-> Date(clock),
                         count |-> FetchedCount(last)]
             IN  /\ cachedData["vehicle"] = new
                 /\ Len(sse) = Len(clients)
                 /\ \A k \in 1..Len(clients) :
                       /\ sse[k].to = clients[k]
                       /\ sse[k].event = "positions"
                       /\ sse[k].count = new.count
                       /\ sse[k].lastUpdated = new.lastUpdated
                       /\ sse[k].payload = new.payload
        ELSE sse = <<>>

\* a refresh has broadcast a snapshot with vehicles to two connections
C29_Witness ==
    /\ VehicleRefreshed
    /\ cachedData["vehicle"].count > 0
    /\ Len(clients) = 2 /\ Len(sse) = 2
    /\ sse[1].payload = cachedData["vehicle"].payload

----------------------------------------------------------------------------
(* Properties of the schedulers *)

EagerOf(infl, f) == {inv \in infl : inv.feed = f /\ inv.origin = "eager"}

\* the step in which the scheduler of feed f is started
SchedulerStarts(f) ==
    IF f = "alerts" THEN serverPc = "boot" /\ serverPc' # "boot"
    ELSE /\ serverPc \in {"boot", "startScheduledRefresh"}
         /\ serverPc' \notin {"boot", "startScheduledRefresh"}

\* starting the scheduler of f performs one eager refresh iff the cache of f
\* is empty
EagerIffEmpty(f) ==
    SchedulerStarts(f) =>
        /\ Cardinality(EagerOf(inflight', f)) =
              (IF CacheIsEmpty(cachedData', f) THEN 1 ELSE 0)
        /\ EagerOf(inflight, f) = {}

\* the eager or timer-tick refresh of f that resumed last has failed
RefreshFailed(f) ==
    /\ last.op \in UpdateOps /\ last.feed = f /\ ~last.ok
    /\ last.origin \in {"eager", "tick"}

\* C30: scheduler start and retry. Starting a feed's scheduler performs one
\* eager refresh iff the cache is still empty. A failure of that eager refresh
\* or of a timer-tick refresh is caught: the process goes on, the interval
\* timer of the feed is armed, a later tick fetches again, and a refresh whose
\* fetch succeeds populates the cache.
C30_SchedulerStartAndRetry ==
    /\ [][\A f \in Feeds : EagerIffEmpty(f)]_vars
    /\ \A f \in Feeds :
          /\ [](RefreshFailed(f) =>
                   /\ refreshInterval[f]
                   /\ serverPc \in {"startVehicleMonitoringRefresh", "listening"})
          /\ RefreshFailed(f) ~> (last.op = "tick" /\ last.feed = f)
    /\ []((last.op \in UpdateOps /\ last.ok) =>
             cachedData[last.feed].lastUpdated = Date(clock))

\* the eager refresh of the vehicle feed failed, a tick has fetched again and
\* its refresh has populated the cache
C30_Witness ==
    /\ serverPc = "listening"
    /\ last.op = "updateCachedVehicleMonitoringData" /\ last.ok
    /\ last.origin = "tick"
    /\ clock = 1
    /\ cachedData["alerts"].lastUpdated = null
    /\ cachedData["vehicle"].lastUpdated = Date(1)

----------------------------------------------------------------------------
(* Properties of the dispatch and of the subscription index *)

\* the topics that occur in the forward or in the reverse index
IndexedLines ==
    DOMAIN socketsByLine
       \cup UNION {socketSubscriptions[c] : c \in DOMAIN socketSubscriptions}

InBucket(c, line) ==
    line \in DOMAIN socketsByLine /\ c \in Range(socketsByLine[line])

\* C31: the dispatch is read-only and silent for unsubscribed topics. A call
\* of notifyNewTrafficAlerts changes neither the forward nor the reverse
\* subscription index, and a record whose topic has no subscriber produces no
\* message to any connection.
C31_DispatchReadOnly ==
    /\ [][last'.op = "notifyNewTrafficAlerts" =>
            /\ socketSubscriptions' = socketSubscriptions
            /\ socketsByLine' = socketsByLine]_vars
    /\ [](last.op = "notifyNewTrafficAlerts" =>
            \A alert \in Handed(last) :
               (\A c \in Conns : ~Subscribed(c, getLineKey(alert)))
                  => \A c \in Conns : AlertFramesTo(c, alert) = 0)

\* a dispatch of a record of a subscribed topic and of a record of a topic
\* without subscriber: only the former has produced a frame
C31_Witness ==
    /\ last.op = "notifyNewTrafficAlerts"
    /\ \E i \in 1..Len(sent) : sent[i].type = "alert"
    /\ \E alert \in Handed(last) :
          /\ getLineKey(alert) # Empty
          /\ \A c \in Conns : ~Subscribed(c, getLineKey(alert))
    /\ \E c \in Conns : readyState[c] = "OPEN" /\ ~Subscribed(c, Bl)

\* C32: index consistency. In every reachable state, after any sequence of
\* connect, subscribe, malformed message, close, error, heartbeat tick and
\* stopTrafficSocketServer, the forward and the reverse map are exact
\* inverses: ws is in socketsByLine[L] if and only if L is in
\* socketSubscriptions[ws].
C32_IndexConsistency ==
    \A c \in Conns, line \in IndexedLines :
       InBucket(c, line) <=> Subscribed(c, line)

\* two connections are indexed, one of them under two topics, after another
\* connection has been removed by the heartbeat
C32_Witness ==
    /\ last.op = "heartbeat"
    /\ \E c \in Conns : Accepted(c) /\ c \in exited
    /\ \E c \in DOMAIN socketSubscriptions :
          Cardinality(socketSubscriptions[c]) = 2
    /\ DOMAIN socketsByLine # {}

\* the subscription of connection y is the same before and after a step:
\* its entry of the forward map and its membership in every topic bucket
SubscriptionKept(y) ==
    /\ (y \in DOMAIN socketSubscriptions') = (y \in DOMAIN socketSubscriptions)
    /\ y \in DOMAIN socketSubscriptions
          => socketSubscriptions'[y] = socketSubscriptions[y]
    /\ \A line \in DOMAIN socketsByLine \cup DOMAIN socketsByLine' :
          (line \in DOMAIN socketsByLine' /\ y \in Range(socketsByLine'[line]))
             = (line \in DOMAIN socketsByLine /\ y \in Range(socketsByLine[line]))

\* C33: frame of client messages. A subscribe by connection X changes only
\* X's subscription set and X's membership in topic buckets, never the
\* subscription of another connection Y; a ping, an unparsable message, an
\* invalid message, a subscribe with invalid 'lines' or an unknown type leaves
\* both index maps unchanged (the sender's previous subscription stays).
C33_MessageFrame ==
    [][last'.op = "message" =>
         IF IsSubscribe(last'.arg[1])
         THEN \A y \in Conns \ {last'.conn} : SubscriptionKept(y)
         ELSE /\ socketSubscriptions' = socketSubscriptions
              /\ socketsByLine' = socketsByLine]_vars

\* a connection with a subscription has sent a message that is not a valid
\* subscribe and is still indexed, next to another connection that is indexed
\* under other topics
C33_Witness ==
    /\ last.op = "message" /\ ~IsSubscribe(last.arg[1])
    /\ last.arg[1].type # "ping"
    /\ last.before # <<>> /\ last.before[1] # {}
    /\ last.conn \in DOMAIN socketSubscriptions
    /\ socketSubscriptions[last.conn] = last.before[1]
    /\ \E y \in DOMAIN socketSubscriptions \ {last.conn} :
          /\ socketSubscriptions[y] # {}
          /\ socketSubscriptions[y] # socketSubscriptions[last.conn]

\* C34: the acknowledgment matches the index. After each valid subscribe, the
\* 'subscribed' frame sent to the connection carries exactly the normalized
\* topic list under which the connection is now indexed (the elements of its
\* entry in socketSubscriptions), with maxFavorites = 50; a ping yields exactly
\* one pong; a new connection receives a welcome frame before any other frame.
\* Frames are sent on open connections.
C34_AckMatchesIndex ==
    /\ [][last'.op = "message" =>
            LET c == last'.conn
                m == last'.arg[1]
                open == readyState[c] = "OPEN"
            IN  /\ IsSubscribe(m) =>
                     /\ open => Len(sent') = 1 /\ sent'[1].type = "subscribed"
                     /\ \A k \in 1..Len(sent') :
                           /\ sent'[k].type = "subscribed" /\ sent'[k].to = c
                           /\ sent'[k].lines
                                 = normalizeLines([isArray |-> TRUE,
                                                   items |-> m.lines]).lines
                           /\ c \in DOMAIN socketSubscriptions'
                           /\ Range(sent'[k].lines) = socketSubscriptions'[c]
                           /\ \A line \in DOMAIN socketsByLine' :
                                 c \in Range(socketsByLine'[line])
                                    <=> line \in Range(sent'[k].lines)
                           /\ sent'[k].maxFavorites = 50
                /\ m.parses /\ m.isObject /\ m.hasType /\ m.type = "ping" =>
                     /\ open => Len(sent') = 1
                     /\ \A k \in 1..Len(sent') :
                           sent'[k].type = "pong" /\ sent'[k].to = c]_vars
    /\ [][last'.op = "connection" =>
            /\ Len(sent') = 1 /\ sent'[1].type = "welcome"
            /\ sent'[1].to = last'.conn /\ sent'[1].maxFavorites = 50]_vars
    /\ [](\A k \in 1..Len(sent) : readyState[sent[k].to] # "NONE")

\* a valid subscribe with blanks, duplicates and values that are dropped has
\* been acknowledged to a connection that was subscribed to other topics
C34_Witness ==
    /\ SubscribeAcked
    /\ Len(sent[1].lines) = 2 /\ Len(last.arg[1].lines) > 2
    /\ last.before # <<>> /\ last.before[1] # {}
    /\ last.before[1] # socketSubscriptions[last.conn]

\* C37: a responsive connection is never evicted. A connection whose pong
\* for each probe is processed before the next heartbeat tick (no tick has
\* passed since its last pong or since its handshake) is not force-closed by
\* the tick and keeps its subscription, across any number of ticks; a newly
\* accepted connection is not force-closed at the first tick after its
\* handshake.
C37_ResponsiveNeverEvicted ==
    [][HeartbeatStep =>
         \A c \in Conns :
            readyState[c] = "OPEN" /\ silentTicks[c] = 0 =>
               /\ readyState'[c] = "OPEN"
               /\ c \notin exited'
               /\ SubscriptionKept(c)]_vars

\* a tick has force-closed a silent connection and has probed again a
\* subscribed connection that answered the previous probe
C37_Witness ==
    /\ last.op = "heartbeat"
    /\ \E c \in Conns :
          /\ readyState[c] = "OPEN" /\ silentTicks[c] = 1 /\ ~isAlive[c]
          /\ \E k \in 1..Len(sent) : sent[k].type = "ping" /\ sent[k].to = c
          /\ c \in DOMAIN socketSubscriptions /\ socketSubscriptions[c] # {}
    /\ \E c \in exited : readyState[c] = "CLOSING" /\ ~isAlive[c]

\* C38: the shutdown of the router is final. After stopTrafficSocketServer
\* and until initTrafficSocketServer is called again, the heartbeat timer is
\* cleared, both index maps are empty and stay empty, whatever messages or
\* close events of previously accepted connections are processed, and
\* notifyNewTrafficAlerts sends nothing.
C38_ShutdownFinal ==
    ~wss =>
       /\ ~heartbeatInterval
       /\ socketSubscriptions = EmptyMap
       /\ socketsByLine = EmptyMap
       /\ last.op = "notifyNewTrafficAlerts" => sent = <<>>

----------------------------------------------------------------------------
(* Refreshes of the alerts feed against upstream data that does not change *)

\* what the two upstream endpoints hold, for the whole behaviour
UpstreamMain == Fulfilled(<<rA1>>)
UpstreamJunior == Fulfilled(<<rB, rA1v>>)

\* the server some time after its boot: both timers are armed, the server
\* listens, and the alerts cache holds the main list of a refresh whose Junior
\* Direct GET failed; dates are counted from this state on
InitRunning ==
    /\ wss = FALSE
    /\ wssClients = {}
    /\ heartbeatInterval = FALSE
    /\ socketSubscriptions = EmptyMap
    /\ socketsByLine = EmptyMap
    /\ readyState = [c \in Conns |-> "NONE"]
    /\ isAlive = [c \in Conns |-> FALSE]
    /\ silentTicks = [c \in Conns |-> 0]
    /\ exited = {}
    /\ cachedData = [f \in Feeds |->
                       IF f = "alerts"
                       THEN [alerts |-> ValuesOf(UpstreamMain),
                             lastUpdated |-> Date(0),
                             count |-> Len(ValuesOf(UpstreamMain))]
                       ELSE EmptyVehicleCache]
    /\ refreshInterval = [f \in Feeds |-> TRUE]
    /\ fakeAlertCounter = 0
    /\ inflight = {}
    /\ serverPc = "listening"
    /\ clock = 0
    /\ clients = <<>>
    /\ sseHeartbeat = 0
    /\ sseOpen = {}
    /\ last = Op("init", 0, "none", "none", TRUE)
    /\ sent = <<>>
    /\ sse = <<>>
    /\ resp = NoResp

\* the GETs of a suspended refresh settle
UpstreamSettle ==
    \E inv \in inflight, m \in {Rejected, UpstreamMain},
       j \in {Rejected, UpstreamJunior} : AlertsFetchSettled(inv, m, j, {})

\* each GET either fails or returns what its endpoint holds
NextUpstream ==
    \/ InitTrafficSocketServer
    \/ \E c \in Conns : Connection(c)
    \/ \E c \in Conns :
          OnMessage(c, Msg(TRUE, TRUE, TRUE, "subscribe", TRUE, <<S(A), S(Bl)>>))
    \/ TimerTick("alerts")
    \/ UpstreamSettle

\* every GET settles (30 s timeout) and the armed timer keeps firing
SpecUpstream ==
    /\ InitRunning /\ [][NextUpstream]_vars
    /\ WF_vars(UpstreamSettle)
    /\ SF_vars(TimerTick("alerts"))

\* the refresh that just completed handed record r to the router as new
Dispatched(r) == last.op = "updateCachedData" /\ r \in Handed(last)

\* C35: no duplicate alert push. A record that is continuously present in
\* the upstream data is dispatched to the router at most once: after a
\* refresh has handed it to notifyNewTrafficAlerts, no later refresh hands it
\* again.
C35_NoDuplicatePush ==
    \A r \in Range(ValuesOf(UpstreamMain)) \cup Range(ValuesOf(UpstreamJunior)) :
       [](Dispatched(r) => [](~Dispatched(r) => []~Dispatched(r)))

----------------------------------------------------------------------------
(* Order of the replaces of one feed *)

\* this step is the successful completion of the suspended refresh inv
CompletesOk(inv) ==
    /\ inv \in inflight
    /\ last'.op \in UpdateOps /\ last'.ok
    /\ last'.feed = inv.feed /\ last'.origin = inv.origin
    /\ Settled(inflight, inv, TRUE) \subseteq inflight'

\* C36: no snapshot regression. Across any interleaving of refreshes of one
\* feed, lastUpdated never decreases and never returns to null once set, and a
\* replace never installs data whose fetch was started earlier than the fetch
\* of the data it overwrites.
C36_NoSnapshotRegression ==
    [][/\ \A f \in Feeds :
            cachedData[f].lastUpdated # null =>
               /\ cachedData'[f].lastUpdated # null
               /\ cachedData'[f].lastUpdated[1] >= cachedData[f].lastUpdated[1]
       /\ \A inv \in inflight : CompletesOk(inv) => ~inv.overtaken]_vars

----------------------------------------------------------------------------
(* Stopping the schedulers *)

NextStop ==
    \/ StartServer
    \/ \E f \in Feeds : TimerTick(f)
    \/ AlertsSettle
    \/ VehicleSettle
    \/ StopScheduledRefresh
    \/ StopVehicleMonitoringRefresh

SpecStop == Init /\ [][NextStop]_vars

\* the scheduler of feed f was started and has been stopped
Stopped(f) == serverPc = "listening" /\ ~refreshInterval[f]

\* C39: the stop of a scheduler is final. After stopScheduledRefresh (resp.
\* stopVehicleMonitoringRefresh) has returned, no refresh timer of the feed is
\* armed and no cache replace or subscriber notification of the feed occurs
\* any more, not even from a refresh that was suspended at its fetch when the
\* scheduler was stopped.
C39_SchedulerStopFinal ==
    [][\A f \in Feeds :
         Stopped(f) =>
            /\ ~refreshInterval'[f]
            /\ cachedData'[f] = cachedData[f]
            /\ ~(/\ last'.op \in UpdateOps /\ last'.feed = f
                 /\ (last'.handed # <<>> \/ sse' # <<>>))]_vars

====
